---------------------------- MODULE Spec2Model ----------------------------
(***************************************************************************)
(* A model of the recommendation / chat pipeline of Tiggy:                 *)
(*   - the LLM client's retry loops and its course-code parser             *)
(*     (server/services/openai_service.py),                                *)
(*   - the send-message and recommendation routes (server/api/routes),     *)
(*   - the query classifier and the similarity block of the chat prompt    *)
(*     (server/llm/chat_prompts.py),                                       *)
(*   - the Distribution Index generator and its lookup, the vector         *)
(*     recommendation path and the filter/rerank stage                     *)
(*     (server/data/scraping, server/services/course_recommender.py).      *)
(*                                                                         *)
(* Text is modelled as a sequence of one-character strings, so that        *)
(* upper(), strip(), split() and the regular expressions of the code are   *)
(* computed, not assumed.                                                  *)
(***************************************************************************)
EXTENDS Integers, Sequences, FiniteSets, TLC
(***************************************************************************)
(* Text helpers: Python's str methods on sequences of characters.          *)
(***************************************************************************)
LowerLetters ==
    <<"a","b","c","d","e","f","g","h","i","j","k","l","m",
      "n","o","p","q","r","s","t","u","v","w","x","y","z">>

UpperLetters ==
    <<"A","B","C","D","E","F","G","H","I","J","K","L","M",
      "N","O","P","Q","R","S","T","U","V","W","X","Y","Z">>

Range(s) == { s[i] : i \in DOMAIN s }

UpperSet == Range(UpperLetters)

LowerSet == Range(LowerLetters)

Digits == {"0","1","2","3","4","5","6","7","8","9"}

SpaceSet == {" ", "\n", "\t"}

WordSet == UpperSet \cup LowerSet \cup Digits \cup {"_"}

\* The upper-case and the lower-case form of each letter
UpperMap == [c \in LowerSet |-> UpperLetters[CHOOSE i \in DOMAIN LowerLetters : LowerLetters[i] = c]]

LowerMap == [c \in UpperSet |-> LowerLetters[CHOOSE i \in DOMAIN UpperLetters : UpperLetters[i] = c]]

IsUpperLetter(c) == c \in UpperSet

IsLowerLetter(c) == c \in LowerSet

IsDigit(c) == c \in Digits

\* \s of the regular expressions and the default of str.strip()/str.split()
IsSpace(c) == c \in SpaceSet

\* \w of the regular expressions
IsWordChar(c) == c \in WordSet

UpperChar(c) == IF c \in LowerSet THEN UpperMap[c] ELSE c

LowerChar(c) == IF c \in UpperSet THEN LowerMap[c] ELSE c

\* str.upper()
Upper(s) == [i \in DOMAIN s |-> UpperChar(s[i])]

\* str.lower()
Lower(s) == [i \in DOMAIN s |-> LowerChar(s[i])]

\* s[a:b] with 1-based inclusive bounds, empty when a > b
Slice(s, a, b) == IF a > b THEN <<>> ELSE SubSeq(s, a, b)

\* str.strip(chars): drop leading and trailing characters satisfying Drop
StripBy(s, Drop(_)) ==
    LET keep == { i \in DOMAIN s : ~Drop(s[i]) }
    IN  IF keep = {} THEN <<>>
        ELSE LET lo == CHOOSE i \in keep : \A j \in keep : i <= j
                 hi == CHOOSE i \in keep : \A j \in keep : i >= j
             IN  SubSeq(s, lo, hi)

\* str.strip()
Strip(s) == StripBy(s, IsSpace)

IsQuote(c) == c \in {"\"", "'"}

\* str.strip('"\'')
StripQuotes(s) == StripBy(s, IsQuote)

\* str.replace(old, new) for single characters
ReplaceChar(s, old, new) == [i \in DOMAIN s |-> IF s[i] = old THEN new ELSE s[i]]

\* re.sub(r'\s+', ' ', s): every run of whitespace becomes one space
RECURSIVE CollapseSpaces(_)
CollapseSpaces(s) ==
    IF s = <<>> THEN <<>>
    ELSE IF IsSpace(Head(s))
      THEN IF Len(s) > 1 /\ IsSpace(s[2])
             THEN CollapseSpaces(Tail(s))
             ELSE <<" ">> \o CollapseSpaces(Tail(s))
      ELSE <<Head(s)>> \o CollapseSpaces(Tail(s))

\* str.split(): the maximal runs of non-whitespace characters
RECURSIVE SplitWords(_)
SplitWords(s) ==
    IF s = <<>> THEN <<>>
    ELSE IF IsSpace(Head(s)) THEN SplitWords(Tail(s))
    ELSE LET stops == { i \in DOMAIN s : IsSpace(s[i]) }
             stop  == IF stops = {} THEN Len(s) + 1
                      ELSE CHOOSE i \in stops : \A j \in stops : i <= j
         IN  <<SubSeq(s, 1, stop - 1)>> \o SplitWords(Slice(s, stop, Len(s)))

\* `sub in s` for strings
Contains(s, sub) ==
    \E i \in 1..(Len(s) - Len(sub) + 1) : SubSeq(s, i, i + Len(sub) - 1) = sub

\* `x in list`
InSeq(x, s) == \E i \in DOMAIN s : s[i] = x

\* list[:n]
Take(s, n) == IF Len(s) <= n THEN s ELSE SubSeq(s, 1, n)

\* separator.join(parts)
RECURSIVE Join(_, _)
Join(parts, sep) ==
    IF parts = <<>> THEN <<>>
    ELSE IF Len(parts) = 1 THEN parts[1]
    ELSE parts[1] \o sep \o Join(Tail(parts), sep)

\* All sequences over S of length at most n
SeqsUpTo(S, n) == UNION { [1..k -> S] : k \in 0..n }


(***************************************************************************)
(* normalize_course_code and parse_course_codes (openai_service.py).       *)
(***************************************************************************)
\* Python's None where a text is expected; no text equals it, since every
\* element of a text is a single character.
None == <<"None">>

\* re.match(r'^([A-Z]{3})\s+(\d{3})$', code)
MatchesSpaced(code) ==
    /\ Len(code) >= 7
    /\ \A i \in 1..3 : IsUpperLetter(code[i])
    /\ \A i \in 4..(Len(code) - 3) : IsSpace(code[i])
    /\ \A i \in (Len(code) - 2)..Len(code) : IsDigit(code[i])

\* re.match(r'^([A-Z]{3})(\d{3})$', code)
MatchesUnspaced(code) ==
    /\ Len(code) = 6
    /\ \A i \in 1..3 : IsUpperLetter(code[i])
    /\ \A i \in 4..6 : IsDigit(code[i])

\* A plausible slip: the conversion to upper case left out
normalize_course_code_NoUpper(course_code) ==
    IF course_code = <<>> THEN None
    ELSE LET code == CollapseSpaces(
                       ReplaceChar(StripQuotes(Strip(course_code)), "-", " "))
         IN  IF MatchesSpaced(code)
               THEN SubSeq(code, 1, 3) \o <<" ">> \o SubSeq(code, Len(code) - 2, Len(code))
             ELSE IF MatchesUnspaced(code)
               THEN SubSeq(code, 1, 3) \o <<" ">> \o SubSeq(code, 4, 6)
             ELSE None

\* normalize_course_code(course_code) for a text argument
normalize_course_code(course_code) ==
    IF course_code = <<>> THEN None
    ELSE LET code == CollapseSpaces(
                       ReplaceChar(StripQuotes(Upper(Strip(course_code))), "-", " "))
         IN  IF MatchesSpaced(code)
               THEN SubSeq(code, 1, 3) \o <<" ">> \o SubSeq(code, Len(code) - 2, Len(code))
             ELSE IF MatchesUnspaced(code)
               THEN SubSeq(code, 1, 3) \o <<" ">> \o SubSeq(code, 4, 6)
             ELSE None

\* The loop `for code in course_codes: normalized_code = normalize_course_code(code);
\* if normalized_code: normalized.append(normalized_code)`
RECURSIVE NormalizeAll(_)
NormalizeAll(codes) ==
    IF codes = <<>> THEN <<>>
    ELSE LET n == normalize_course_code(Head(codes))
         IN  (IF n # None THEN <<n>> ELSE <<>>) \o NormalizeAll(Tail(codes))

\* End of the match of r'\b([A-Z]{3})\s+(\d{3})\b' starting at position i of t,
\* 0 when it does not match there
MatchSpacedEnd(t, i) ==
    LET n      == Len(t)
        nonws  == { j \in (i + 3)..n : ~IsSpace(t[j]) }
        d      == IF nonws = {} THEN n + 1 ELSE CHOOSE j \in nonws : \A k \in nonws : j <= k
    IN  IF /\ (i = 1 \/ ~IsWordChar(t[i - 1]))
           /\ i + 2 <= n
           /\ \A k \in 0..2 : IsUpperLetter(t[i + k])
           /\ d > i + 3
           /\ d + 2 <= n
           /\ \A k \in 0..2 : IsDigit(t[d + k])
           /\ (d + 3 > n \/ ~IsWordChar(t[d + 3]))
        THEN d + 2 ELSE 0

\* End of the match of r'\b([A-Z]{3})(\d{3})\b' starting at position i of t, 0 when none
MatchUnspacedEnd(t, i) ==
    LET n == Len(t)
    IN  IF /\ (i = 1 \/ ~IsWordChar(t[i - 1]))
           /\ i + 5 <= n
           /\ \A k \in 0..2 : IsUpperLetter(t[i + k])
           /\ \A k \in 3..5 : IsDigit(t[i + k])
           /\ (i + 6 > n \/ ~IsWordChar(t[i + 6]))
        THEN i + 5 ELSE 0

\* re.findall(pattern, t) read as f"{subject} {number}", scanning from position i
RECURSIVE FindSpaced(_, _)
FindSpaced(t, i) ==
    IF i > Len(t) THEN <<>>
    ELSE LET e == MatchSpacedEnd(t, i)
         IN  IF e # 0
               THEN <<SubSeq(t, i, i + 2) \o <<" ">> \o SubSeq(t, e - 2, e)>>
                    \o FindSpaced(t, e + 1)
               ELSE FindSpaced(t, i + 1)

RECURSIVE FindUnspaced(_, _)
FindUnspaced(t, i) ==
    IF i > Len(t) THEN <<>>
    ELSE LET e == MatchUnspacedEnd(t, i)
         IN  IF e # 0
               THEN <<SubSeq(t, i, i + 2) \o <<" ">> \o SubSeq(t, i + 3, i + 5)>>
                    \o FindUnspaced(t, e + 1)
               ELSE FindUnspaced(t, i + 1)

\* `if course_code not in course_codes: course_codes.append(course_code)` over found
RECURSIVE AppendNew(_, _)
AppendNew(acc, found) ==
    IF found = <<>> THEN acc
    ELSE AppendNew(IF InSeq(Head(found), acc) THEN acc ELSE Append(acc, Head(found)),
                   Tail(found))

\* The regex fallback of parse_course_codes on the raw text
ParseFreeText(text) ==
    LET t      == Upper(text)
        first  == AppendNew(<<>>, FindSpaced(t, 1))
        second == AppendNew(first, FindUnspaced(t, 1))
    IN  Take(NormalizeAll(second), 5)

\* The raw text of a free-text reply listing the items
RenderText(items) == Join(items, <<",", " ">>)

\* The list json.loads finds in a reply: the value of "courses", "recommendations" or
\* "course_codes", else the first list value; a bare array is taken as it is
JsonCourseList(reply) ==
    IF reply.kind = "list" THEN reply.items
    ELSE IF reply.key = "courses" THEN reply.items
    ELSE IF reply.key = "recommendations" THEN reply.items
    ELSE IF reply.key = "course_codes" THEN reply.items
    ELSE reply.items

\* parse_course_codes(response_text): [raised, codes]. A reply is
\*   kind "list"           a JSON array of strings,
\*   kind "dict"           a JSON object {key: [strings]},
\*   kind "dict_null"      a JSON object {"courses": null},
\*   kind "list_nonstring" a JSON array holding a number,
\*   kind "text"           free text listing the items.
parse_course_codes(reply) ==
    IF reply.kind = "list_nonstring"
      THEN [raised |-> TRUE, codes |-> <<>>]     \* int has no strip(): AttributeError
    ELSE IF reply.kind = "dict_null"
      THEN [raised |-> TRUE, codes |-> <<>>]     \* `for code in None`: TypeError
    ELSE IF reply.kind \in {"list", "dict"}
      THEN IF JsonCourseList(reply) # <<>>
             THEN [raised |-> FALSE, codes |-> Take(NormalizeAll(JsonCourseList(reply)), 5)]
             ELSE [raised |-> FALSE, codes |-> <<>>]   \* "[]" holds no code for the regexes
    ELSE [raised |-> FALSE, codes |-> ParseFreeText(RenderText(reply.items))]

(***************************************************************************)
(* Ordering of strings and list.sort().                                    *)
(***************************************************************************)
\* The characters of the model in code-point order
AsciiOrder ==
    <<"\t", "\n", " ", "\"", "'", "(", ")", ",", "-", "/">>
    \o <<"0","1","2","3","4","5","6","7","8","9">>
    \o UpperLetters \o <<"_">> \o LowerLetters

Ord == [c \in Range(AsciiOrder) |-> CHOOSE i \in DOMAIN AsciiOrder : AsciiOrder[i] = c]

\* a < b for strings: code-point order at the first difference, a proper prefix first
StrLess(a, b) ==
    \E i \in 1..(Len(b)) :
        /\ i <= Len(a) + 1
        /\ \A j \in 1..(i - 1) : a[j] = b[j]
        /\ (i = Len(a) + 1 \/ Ord[a[i]] < Ord[b[i]])

\* list.sort() with the order Before: a stable sort, so items neither of which is
\* before the other keep the order they had
StableSort(s, Before(_, _)) ==
    LET pos(i) == 1 + Cardinality({ j \in DOMAIN s :
                        \/ Before(s[j], s[i])
                        \/ (~Before(s[i], s[j]) /\ j < i) })
    IN  [p \in DOMAIN s |-> s[CHOOSE i \in DOMAIN s : pos(i) = p]]

(***************************************************************************)
(* The LLM client's retry loops: generate_chat_response and                *)
(* generate_course_recommendations (openai_service.py).                    *)
(***************************************************************************)
VARIABLES
    llm_pc,        \* per invocation: "idle" | "call" | "returned" | "raised" | "fellthrough"
    attempt,       \* per invocation: the loop variable of `for attempt in range(max_retries)`
    api_calls,     \* per invocation: completion-API calls issued so far
    llm_result,    \* per invocation: the value returned (a reply text tag or a list of codes)
    llm_error,     \* per invocation: the error raised to the caller, "none" when none
    short_parses,  \* per invocation: attempts whose parse gave fewer than 5 codes
    llm_reply      \* per invocation: the last completion text received

llmVars == <<llm_pc, attempt, api_calls, llm_result, llm_error, short_parses, llm_reply>>

\* max_retries: int = 3
max_retries == 3

\* The length generate_course_recommendations insists on (`len(course_codes) == 5`)
expected_count == 5

\* Calls of generate_chat_response (one per send-message request)
ChatInvocations == {"r1", "r2"}

\* The call of generate_course_recommendations
RecoInvocations == {"reco"}

Invocations == ChatInvocations \cup RecoInvocations

\* No invocation issues more completion calls than this in the model
CallCap == 5

\* Longest list of items in a reply of the model
MaxItems == 6

COS_126 == <<"C","O","S"," ","1","2","6">>

ECO100  == <<"E","C","O","1","0","0">>

bad     == <<"b","a","d">>

\* What an entry of a reply can be: a spaced code, an unspaced code, no code
ItemPool == {COS_126, ECO100, bad}

DictKeys == {"courses", "recommendations", "course_codes", "picks"}

NoReply == [kind |-> "none", key |-> "", items |-> <<>>]

\* The completion texts of the model
Replies ==
    { [kind |-> "list", key |-> "", items |-> it] : it \in SeqsUpTo(ItemPool, MaxItems) }
    \cup { [kind |-> "dict", key |-> k, items |-> it] :
              k \in DictKeys, it \in SeqsUpTo(ItemPool, MaxItems) }
    \cup { [kind |-> "text", key |-> "", items |-> it] : it \in SeqsUpTo(ItemPool, MaxItems) }
    \cup { [kind |-> "dict_null", key |-> "courses", items |-> <<>>],
           [kind |-> "list_nonstring", key |-> "", items |-> <<>>] }

\* A plausible slip: retry on every failure, with no bound
AfterFailure_AlwaysRetry(a) == [pc |-> "call", attempt |-> a + 1]

\* What follows a failed attempt a: `if attempt < max_retries - 1: continue
\* else: raise`, where continue enters the next iteration of
\* `for attempt in range(max_retries)` or, the range exhausted, falls out of the loop
AfterFailure(a) ==
    IF a < max_retries - 1
      THEN IF a + 1 < max_retries
             THEN [pc |-> "call", attempt |-> a + 1]
             ELSE [pc |-> "fellthrough", attempt |-> a]
      ELSE [pc |-> "raised", attempt |-> a]

\* The error the caller sees after a failure with error err
ErrorAfter(nxt, err) ==
    IF nxt.pc = "raised" THEN err
    ELSE IF nxt.pc = "fellthrough" THEN "exhausted"
    ELSE "none"

\* A plausible slip: hand back whatever was extracted once the retries are used up
RecoDecision_ReturnShort(course_codes, a) ==
    IF Len(course_codes) >= expected_count \/ a >= max_retries - 1
      THEN [pc |-> "returned", attempt |-> a, result |-> Take(course_codes, expected_count),
            error |-> "none"]
      ELSE [pc |-> "call", attempt |-> a + 1, result |-> <<>>, error |-> "none"]

\* generate_course_recommendations on the parsed codes of attempt a
RecoDecision(course_codes, a) ==
    IF Len(course_codes) = expected_count
      THEN [pc |-> "returned", attempt |-> a, result |-> course_codes, error |-> "none"]
    ELSE IF Len(course_codes) > expected_count
      THEN [pc |-> "returned", attempt |-> a, result |-> Take(course_codes, expected_count),
            error |-> "none"]
    ELSE LET nxt == AfterFailure(a)
         IN  [pc |-> nxt.pc, attempt |-> nxt.attempt, result |-> <<>>,
              error |-> ErrorAfter(nxt, "ValueError")]

InitLLMIdle ==
    /\ llm_pc = [i \in Invocations |-> "idle"]
    /\ attempt = [i \in Invocations |-> 0]
    /\ api_calls = [i \in Invocations |-> 0]
    /\ llm_result = [i \in Invocations |-> <<>>]
    /\ llm_error = [i \in Invocations |-> "none"]
    /\ short_parses = [i \in Invocations |-> 0]
    /\ llm_reply = [i \in Invocations |-> NoReply]

\* A caller enters generate_chat_response / generate_course_recommendations
StartInvocation(i) ==
    /\ llm_pc' = [llm_pc EXCEPT ![i] = "call"]
    /\ attempt' = [attempt EXCEPT ![i] = 0]
    /\ api_calls' = [api_calls EXCEPT ![i] = 0]
    /\ llm_result' = [llm_result EXCEPT ![i] = <<>>]
    /\ llm_error' = [llm_error EXCEPT ![i] = "none"]
    /\ short_parses' = [short_parses EXCEPT ![i] = 0]
    /\ llm_reply' = [llm_reply EXCEPT ![i] = NoReply]

\* One attempt of either loop whose completion call raises
CompletionFails(i) ==
    /\ llm_pc[i] = "call"
    /\ api_calls[i] < CallCap
    /\ LET nxt == AfterFailure(attempt[i])
       IN  /\ llm_pc' = [llm_pc EXCEPT ![i] = nxt.pc]
           /\ attempt' = [attempt EXCEPT ![i] = nxt.attempt]
           /\ llm_error' = [llm_error EXCEPT ![i] = ErrorAfter(nxt, "APIError")]
    /\ api_calls' = [api_calls EXCEPT ![i] = @ + 1]
    /\ UNCHANGED <<llm_result, short_parses, llm_reply>>

\* One attempt of generate_chat_response whose completion call answers
ChatCompletionReturns(i) ==
    /\ i \in ChatInvocations
    /\ llm_pc[i] = "call"
    /\ api_calls[i] < CallCap
    /\ llm_pc' = [llm_pc EXCEPT ![i] = "returned"]
    /\ llm_result' = [llm_result EXCEPT ![i] = <<"response_text">>]
    /\ api_calls' = [api_calls EXCEPT ![i] = @ + 1]
    /\ UNCHANGED <<attempt, llm_error, short_parses, llm_reply>>

\* generate_course_recommendations after the completion of attempt i answered reply.
\* llm_reply keeps the reply the invocation ended on; a retry drops it.
RecoHandleReply(i, reply) ==
    \E parsed \in {parse_course_codes(reply)} :
        IF parsed.raised
          THEN \E nxt \in {AfterFailure(attempt[i])} :
                   /\ llm_pc' = [llm_pc EXCEPT ![i] = nxt.pc]
                   /\ attempt' = [attempt EXCEPT ![i] = nxt.attempt]
                   /\ llm_error' = [llm_error EXCEPT ![i] = ErrorAfter(nxt, "TypeError")]
                   /\ llm_reply' = [llm_reply EXCEPT ![i] =
                         IF nxt.pc = "call" THEN NoReply ELSE reply]
                   /\ UNCHANGED <<llm_result, short_parses>>
          ELSE \E d \in {RecoDecision(parsed.codes, attempt[i])} :
                   /\ llm_pc' = [llm_pc EXCEPT ![i] = d.pc]
                   /\ attempt' = [attempt EXCEPT ![i] = d.attempt]
                   /\ llm_result' = [llm_result EXCEPT ![i] = d.result]
                   /\ llm_error' = [llm_error EXCEPT ![i] = d.error]
                   /\ llm_reply' = [llm_reply EXCEPT ![i] =
                         IF d.pc = "call" THEN NoReply ELSE reply]
                   /\ short_parses' = [short_parses EXCEPT ![i] =
                         IF Len(parsed.codes) < expected_count THEN @ + 1 ELSE @]

\* One attempt of generate_course_recommendations whose completion call answers
RecoCompletionReturns(i) ==
    /\ i \in RecoInvocations
    /\ llm_pc[i] = "call"
    /\ api_calls[i] < CallCap
    /\ api_calls' = [api_calls EXCEPT ![i] = @ + 1]
    /\ \E reply \in Replies : RecoHandleReply(i, reply)


\* A caller has entered generate_chat_response or generate_course_recommendations
InitLLM ==
    /\ \E c \in {"r1", "reco"} :
          llm_pc = [i \in Invocations |-> IF i = c THEN "call" ELSE "idle"]
    /\ attempt = [i \in Invocations |-> 0]
    /\ api_calls = [i \in Invocations |-> 0]
    /\ llm_result = [i \in Invocations |-> <<>>]
    /\ llm_error = [i \in Invocations |-> "none"]
    /\ short_parses = [i \in Invocations |-> 0]
    /\ llm_reply = [i \in Invocations |-> NoReply]
(***************************************************************************)
(* The send-message route (api/routes/chat.py): requests r1 and r2 post to  *)
(* one chat document; delete_chat may remove the document at any moment.   *)
(* Every database operation is one step, so the requests interleave as     *)
(* the server's worker threads do.                                         *)
(***************************************************************************)
VARIABLES
    chat_exists,              \* the chat document is in db.chats
    userMessages,             \* the document's userMessages (a message is named by its request)
    modelMessages,            \* the document's modelMessages: [req, message]
    req_pc,                   \* per request: "idle" | "push" | "build" | "generate" | "save" | "done"
    previous_user_messages,   \* per request: the local of that name
    previous_model_messages,  \* per request: the local of that name
    model_msg,                \* per request: model_msg.message, "none" until set
    response,                 \* per request: [status, body], status 0 until answered
    failure                   \* per request: what raised inside the generation try-block

chatVars == <<chat_exists, userMessages, modelMessages, req_pc, previous_user_messages,
              previous_model_messages, model_msg, response, failure>>

Requests == ChatInvocations

\* model_msg.message of the except branch
Apology == "I apologize, but I'm having trouble processing your request right now. Please try again later."

NoResponse == [status |-> 0, body |-> ""]

\* The request bodies of the model: the three rejected shapes, a chatId that
\* ObjectId() refuses, and a well-formed payload
Payloads == {"missing", "no_chatId", "no_timestamp", "bad_chatId", "ok"}

\* The answer to a payload that is not processed further
PayloadRejection(p) ==
    IF p = "missing" THEN [status |-> 400, body |-> "Payload is missing."]
    ELSE IF p = "no_chatId" THEN [status |-> 400, body |-> "Missing required field: 'chatId'."]
    ELSE IF p = "no_timestamp" THEN [status |-> 400, body |-> "Missing required field: 'timestamp'."]
    ELSE [status |-> 500, body |-> "Internal Server Error"]

\* What can happen between the user-message write and the completion loop:
\* find_one raises, build_chat_prompt raises, get_openai_client raises, or none of them
BuildOutcomes == {"ok", "find_one", "build_chat_prompt", "get_openai_client"}

\* previous_user_messages[:-1]
AllButLast(s) == IF Len(s) = 0 THEN s ELSE SubSeq(s, 1, Len(s) - 1)

\* A plausible slip: answer the generation failure with an error
OnGenerationFailure_Error(r) ==
    [pc |-> "done", model_msg |-> "none",
     response |-> [status |-> 500, body |-> "Failed to generate AI response"]]

\* `except Exception`: the apology becomes the model message and the handler goes on
\* to save it
OnGenerationFailure(r) ==
    [pc |-> "save", model_msg |-> Apology, response |-> NoResponse]

InitChatIdle ==
    /\ chat_exists = TRUE
    /\ userMessages = <<>>
    /\ modelMessages = <<>>
    /\ req_pc = [r \in Requests |-> "idle"]
    /\ previous_user_messages = [r \in Requests |-> <<>>]
    /\ previous_model_messages = [r \in Requests |-> <<>>]
    /\ model_msg = [r \in Requests |-> "none"]
    /\ response = [r \in Requests |-> NoResponse]
    /\ failure = [r \in Requests |-> "none"]

\* send_message up to the user-message write: the payload checks, ObjectId() and
\* model_validate
ReceiveMessage(r) ==
    /\ req_pc[r] = "idle"
    /\ \E p \in Payloads :
          IF p = "ok"
            THEN /\ req_pc' = [req_pc EXCEPT ![r] = "push"]
                 /\ UNCHANGED response
            ELSE /\ req_pc' = [req_pc EXCEPT ![r] = "done"]
                 /\ response' = [response EXCEPT ![r] = PayloadRejection(p)]
    /\ UNCHANGED <<chat_exists, userMessages, modelMessages, previous_user_messages,
                   previous_model_messages, model_msg, failure, llmVars>>

\* A plausible slip: the failure of the user-message write is logged and the handler
\* goes on to generate the answer
OnUserWriteError_GoOn(r) ==
    [pc |-> "build", response |-> NoResponse]

\* `except Exception` of the user-message write: the handler answers 500
OnUserWriteError(r) ==
    [pc |-> "done",
     response |-> [status |-> 500, body |-> "Failed to upload user message to the database"]]

\* update_one({$push: userMessages}): raises (500), matches nothing (404) or appends
PushUserMessage(r) ==
    /\ req_pc[r] = "push"
    /\ \E raises \in BOOLEAN :
          IF raises
            THEN /\ req_pc' = [req_pc EXCEPT ![r] = OnUserWriteError(r).pc]
                 /\ response' = [response EXCEPT ![r] = OnUserWriteError(r).response]
                 /\ UNCHANGED userMessages
          ELSE IF ~chat_exists
            THEN /\ req_pc' = [req_pc EXCEPT ![r] = "done"]
                 /\ response' = [response EXCEPT ![r] =
                       [status |-> 404, body |-> "No chat found matching chatId and/or userId"]]
                 /\ UNCHANGED userMessages
            ELSE /\ req_pc' = [req_pc EXCEPT ![r] = "build"]
                 /\ userMessages' = Append(userMessages, r)
                 /\ UNCHANGED response
    /\ UNCHANGED <<chat_exists, modelMessages, previous_user_messages,
                   previous_model_messages, model_msg, failure, llmVars>>

\* The except branch of the generation try-block, entered because `what` raised
GenerationFailed(r, what) ==
    \E h \in {OnGenerationFailure(r)} :
        /\ req_pc' = [req_pc EXCEPT ![r] = h.pc]
        /\ model_msg' = [model_msg EXCEPT ![r] = h.model_msg]
        /\ response' = [response EXCEPT ![r] = h.response]
        /\ failure' = [failure EXCEPT ![r] = what]

\* find_one, the history slices, build_chat_prompt and the entry into
\* generate_chat_response (get_openai_client)
BuildPrompt(r) ==
    /\ req_pc[r] = "build"
    /\ \E outcome \in BuildOutcomes :
          /\ IF outcome = "find_one" \/ ~chat_exists
               THEN UNCHANGED <<previous_user_messages, previous_model_messages>>
               ELSE /\ previous_user_messages' =
                          [previous_user_messages EXCEPT ![r] = AllButLast(userMessages)]
                    /\ previous_model_messages' =
                          [previous_model_messages EXCEPT ![r] = modelMessages]
          /\ IF outcome = "ok"
               THEN /\ req_pc' = [req_pc EXCEPT ![r] = "generate"]
                    /\ StartInvocation(r)
                    /\ UNCHANGED <<model_msg, response, failure>>
               ELSE /\ GenerationFailed(r, outcome)
                    /\ UNCHANGED llmVars
    /\ UNCHANGED <<chat_exists, userMessages, modelMessages>>

\* An attempt of generate_chat_response raises: the loop retries, or the error
\* reaches the except branch of send_message
ChatAttemptFails(r) ==
    /\ req_pc[r] = "generate"
    /\ CompletionFails(r)
    /\ IF llm_pc'[r] = "call"
         THEN UNCHANGED <<req_pc, model_msg, response, failure>>
         ELSE GenerationFailed(r, "generate_chat_response")
    /\ UNCHANGED <<chat_exists, userMessages, modelMessages, previous_user_messages,
                   previous_model_messages>>

\* An attempt of generate_chat_response answers: model_msg.message = ai_response
ChatAttemptReturns(r) ==
    /\ req_pc[r] = "generate"
    /\ ChatCompletionReturns(r)
    /\ req_pc' = [req_pc EXCEPT ![r] = "save"]
    /\ model_msg' = [model_msg EXCEPT ![r] = llm_result'[r][1]]
    /\ UNCHANGED <<chat_exists, userMessages, modelMessages, previous_user_messages,
                   previous_model_messages, response, failure>>

\* update_one({$push: modelMessages}) and the answer: the write raises (500), or it
\* is applied to the document if there still is one (matched_count is not looked at)
\* and the handler answers 201 with the model message
SaveModelMessage(r) ==
    /\ req_pc[r] = "save"
    /\ \E raises \in BOOLEAN :
          IF raises
            THEN /\ response' = [response EXCEPT ![r] =
                       [status |-> 500, body |-> "Failed to upload model message to the database"]]
                 /\ UNCHANGED modelMessages
            ELSE /\ response' = [response EXCEPT ![r] =
                       [status |-> 201, body |-> model_msg[r]]]
                 /\ modelMessages' =
                       IF chat_exists
                         THEN Append(modelMessages, [req |-> r, message |-> model_msg[r]])
                         ELSE modelMessages
    /\ req_pc' = [req_pc EXCEPT ![r] = "done"]
    /\ UNCHANGED <<chat_exists, userMessages, previous_user_messages,
                   previous_model_messages, model_msg, failure, llmVars>>

\* delete_chat: delete_one removes the document with its messages
DeleteChat ==
    /\ chat_exists
    /\ chat_exists' = FALSE
    /\ userMessages' = <<>>
    /\ modelMessages' = <<>>
    /\ UNCHANGED <<req_pc, previous_user_messages, previous_model_messages, model_msg,
                   response, failure, llmVars>>

(***************************************************************************)
(* The Distribution Index: its generator (generate_distribution_mapping.py) *)
(* and its lookup (get_courses_by_distribution, course_recommender.py),     *)
(* with the route that stores a student's past courses (user.py).          *)
(***************************************************************************)
VARIABLES
    catalog,            \* course_details.json: the courses with their distribution field
    distribution_map,   \* distribution_to_courses.json, empty until generated
    past_courses,       \* the keys of the student's past_courses in db.users
    update_status,      \* the status of the last update-past-courses answer, 0 when none
    lookup              \* the call of get_courses_by_distribution: the index it loaded,
                        \* its arguments and its result

distVars == <<catalog, distribution_map, past_courses, update_status, lookup>>

\* The course codes of the catalog, in the order of the file
CatalogCodes == << <<"C","O","S"," ","1","2","6">>, <<"A","A","S"," ","2","2","5">> >>

NoDistribution == [form |-> "absent", text |-> <<>>, items |-> <<>>]

\* The distribution fields of the model: absent, a string (one code, a legacy code in
\* lower case, several codes separated by comma and space) or a list
DistributionPool ==
    { NoDistribution,
      [form |-> "str", text |-> <<"S","E","L">>, items |-> <<>>],
      [form |-> "str", text |-> <<"s","t","l">>, items |-> <<>>],
      [form |-> "str", text |-> <<"H","A",","," ","S","T","L"," ","S","E","L">>, items |-> <<>>],
      [form |-> "list", text |-> <<>>, items |-> << <<" ","q","r"," ">>, <<"S","E","N">> >>],
      [form |-> "list", text |-> <<>>, items |-> << <<"E","C"," ","o","r"," ","E","M">>, <<" ">> >>] }

Catalogs ==
    { [i \in DOMAIN CatalogCodes |-> [course_code |-> CatalogCodes[i], distribution |-> f[i]]] :
          f \in [DOMAIN CatalogCodes -> DistributionPool] }

\* [f(x) for x in s]
MapSeq(s, f(_)) == [i \in DOMAIN s |-> f(s[i])]

IsNonEmpty(s) == s # <<>>

StripUpper(d) == Upper(Strip(d))

\* dist_codes of the generator: the list form keeps its truthy items, the string form
\* is split at commas and whitespace; each code is stripped and upper-cased
dist_codes(distribution) ==
    IF distribution.form = "list"
      THEN MapSeq(SelectSeq(distribution.items, IsNonEmpty), StripUpper)
    ELSE IF distribution.form = "str"
      THEN MapSeq(SplitWords(ReplaceChar(distribution.text, ",", " ")), StripUpper)
    ELSE <<>>

\* A plausible slip in the table of legacy codes
generator_mapping_Typo(dist_code) ==
    IF dist_code = <<"S","T","L">> THEN <<"S","E","N">>
    ELSE IF dist_code = <<"S","T","N">> THEN <<"S","E","N">>
    ELSE IF dist_code = <<"Q","R">> THEN <<"Q","C","R">>
    ELSE dist_code

\* distribution_mapping.get(dist_code, dist_code) of the generator
generator_mapping(dist_code) ==
    IF dist_code = <<"S","T","L">> THEN <<"S","E","L">>
    ELSE IF dist_code = <<"S","T","N">> THEN <<"S","E","N">>
    ELSE IF dist_code = <<"Q","R">> THEN <<"Q","C","R">>
    ELSE dist_code

\* mapping.get(key, [])
GetList(mapping, key) == IF key \in DOMAIN mapping THEN mapping[key] ELSE <<>>

\* distribution_map[key].append(course_code) on a defaultdict(list)
AppendTo(mapping, key, course_code) ==
    [k \in DOMAIN mapping \cup {key} |->
        IF k = key THEN Append(GetList(mapping, key), course_code) ELSE mapping[k]]

\* `for dist_code in dist_codes:` for one course
RECURSIVE AddCourse(_, _, _)
AddCourse(mapping, codes, course_code) ==
    IF codes = <<>> THEN mapping
    ELSE LET normalized_code == generator_mapping(Head(codes))
         IN  AddCourse(
                IF normalized_code # <<>> /\ ~InSeq(normalized_code, GetList(mapping, normalized_code))
                  THEN AppendTo(mapping, normalized_code, course_code)
                  ELSE mapping,
                Tail(codes), course_code)

\* `for course in ...:` over the catalog
RECURSIVE AddCourses(_, _)
AddCourses(mapping, courses) ==
    IF courses = <<>> THEN mapping
    ELSE AddCourses(AddCourse(mapping, dist_codes(Head(courses).distribution),
                              Head(courses).course_code),
                    Tail(courses))

\* generate_distribution_mapping: the loop, then every list sorted
generate_distribution_mapping(courses) ==
    LET distribution_map_ == AddCourses(<<>>, courses)
    IN  [d \in DOMAIN distribution_map_ |-> StableSort(distribution_map_[d], StrLess)]

\* distribution_code_mapping.get(distribution_code_upper, distribution_code_upper)
lookup_mapping(distribution_code_upper) ==
    IF distribution_code_upper = <<"S","T","L">> THEN <<"S","E","L">>
    ELSE IF distribution_code_upper = <<"S","T","N">> THEN <<"S","E","N">>
    ELSE IF distribution_code_upper = <<"Q","R">> THEN <<"Q","C","R">>
    ELSE distribution_code_upper

\* A plausible slip: the lookup without upper()
get_courses_by_distribution_NoUpper(mapping, distribution_code, past, exclude_taken) ==
    LET normalized_code == lookup_mapping(distribution_code)
        matching_courses == GetList(mapping, normalized_code)
        NotTaken(code) == code \notin past
    IN  IF exclude_taken /\ past # {}
          THEN SelectSeq(matching_courses, NotTaken)
          ELSE matching_courses

\* get_courses_by_distribution on the loaded index `mapping`
get_courses_by_distribution(mapping, distribution_code, past, exclude_taken) ==
    LET normalized_code == lookup_mapping(Upper(distribution_code))
        matching_courses == GetList(mapping, normalized_code)
        NotTaken(code) == code \notin past
    IN  IF exclude_taken /\ past # {}
          THEN SelectSeq(matching_courses, NotTaken)
          ELSE matching_courses

\* filter_courses_by_distribution: the same question answered from the catalog
filter_courses_by_distribution(courses, distribution_code, past, exclude_taken) ==
    LET distribution_code_upper == Upper(distribution_code)
        normalized_code == lookup_mapping(distribution_code_upper)
        Matches(course) ==
            /\ ~(exclude_taken /\ past # {} /\ course.course_code \in past)
            /\ LET distribution == course.distribution
               IN  IF distribution.form = "list"
                     THEN LET codes == MapSeq(SelectSeq(distribution.items, IsNonEmpty), StripUpper)
                          IN  InSeq(normalized_code, codes) \/ InSeq(distribution_code_upper, codes)
                   ELSE IF distribution.form = "str"
                     THEN LET dist_upper == Upper(distribution.text)
                              dist_parts == MapSeq(SplitWords(ReplaceChar(dist_upper, ",", " ")),
                                                   StripUpper)
                          IN  /\ (Contains(dist_upper, normalized_code)
                                    \/ Contains(dist_upper, distribution_code_upper))
                              /\ (InSeq(normalized_code, dist_parts)
                                    \/ InSeq(distribution_code_upper, dist_parts))
                   ELSE FALSE
    IN  MapSeq(SelectSeq(courses, Matches), LAMBDA course : course.course_code)

\* f"{subject_code}{catalog_number}": the code as course_codes.json lists it
Unspaced(course_code) == SelectSeq(course_code, LAMBDA c : c # " ")

\* course_codes.json of the catalog
course_codes == { Unspaced(CatalogCodes[i]) : i \in DOMAIN CatalogCodes }

\* The keys a client may send as past courses: the course as course_codes.json
\* lists it and the same course written with a space
PastCourseKeys == { <<"A","A","S","2","2","5">>, <<"A","A","S"," ","2","2","5">> }

\* The distribution codes asked for
QueryCodes == { <<"S","E","L">>, <<"S","T","L">>, <<"s","t","l">>, <<"S","E","N">>, <<"S","T","N">>, <<"Q","R">>, <<"q","c","r">>, <<"H","A">> }

NoLookup ==
    [done |-> FALSE, distribution_code |-> <<>>, distribution_mapping |-> <<>>,
     past_courses |-> {}, exclude_taken |-> FALSE, result |-> <<>>]

InitDistIdle ==
    /\ catalog = [i \in DOMAIN CatalogCodes |->
                     [course_code |-> CatalogCodes[i], distribution |-> NoDistribution]]
    /\ distribution_map = <<>>
    /\ past_courses = {}
    /\ update_status = 0
    /\ lookup = NoLookup

\* The script generate_distribution_mapping.py is run on the catalog
GenerateDistributionMapping ==
    /\ distribution_map' = generate_distribution_mapping(catalog)
    /\ UNCHANGED <<catalog, past_courses, update_status, lookup>>

\* update_past_courses: with course_codes.json readable every key must be listed in
\* it (400 otherwise); then the keys are stored as sent
UpdatePastCourses ==
    /\ update_status = 0
    /\ \E payload \in SUBSET PastCourseKeys, file_found \in BOOLEAN :
          IF file_found /\ \E course_name \in payload : course_name \notin course_codes
            THEN /\ update_status' = 400
                 /\ UNCHANGED past_courses
            ELSE /\ update_status' = 200
                 /\ past_courses' = payload
    /\ UNCHANGED <<catalog, distribution_map, lookup>>

\* A requirement query: get_courses_by_distribution for the student
Lookup ==
    /\ ~lookup.done
    /\ \E distribution_code \in QueryCodes, exclude_taken \in BOOLEAN :
          lookup' = [done |-> TRUE, distribution_code |-> distribution_code,
                     distribution_mapping |-> distribution_map,
                     past_courses |-> past_courses, exclude_taken |-> exclude_taken,
                     result |-> get_courses_by_distribution(distribution_map, distribution_code,
                                                            past_courses, exclude_taken)]
    /\ UNCHANGED <<catalog, distribution_map, past_courses, update_status>>

InitDist ==
    /\ catalog \in Catalogs
    /\ distribution_map = <<>>
    /\ past_courses = {}
    /\ update_status = 0
    /\ lookup = NoLookup

(***************************************************************************)
(* The query classifier classify_query_with_llm (llm/chat_prompts.py).     *)
(***************************************************************************)
VARIABLES
    classify_env,     \* what the environment does during the call: the client, the
                      \* completion call and the content of the reply
    classify_out      \* the outcome of the call: what was returned or raised

classifyVars == <<classify_env, classify_out>>

\* Values of the reply's JSON object: a missing key, null, a number, a string
JAbsent == [t |-> "absent", v |-> <<>>]

JNull == [t |-> "null", v |-> <<>>]

JNumber == [t |-> "number", v |-> <<>>]

JStr(s) == [t |-> "str", v |-> s]

\* The intents, requirement types and other fields a reply may carry
ReplyIntents ==
    { JAbsent, JNull, JNumber, JStr(<<"s","i","m","i","l","a","r","i","t","y">>), JStr(<<"R","e","q","u","i","r","e","m","e","n","t">>),
      JStr(<<"S","U","B","J","E","C","T">>), JStr(<<"o","t","h","e","r">>) }

ReplyRequirementTypes ==
    { JAbsent, JNull, JNumber, JStr(<<>>), JStr(<<"s","t","l">>), JStr(<<"S","E","L">>), JStr(<<"Q","r">>), JStr(<<"h","a">>) }

ReplyCourseCodes == { JAbsent, JNull, JStr(<<"C","O","S"," ","2","2","6">>) }

ReplyDeptCodes == { JAbsent, JNull, JStr(<<"C","O","S">>) }

\* The contents of a reply: text that is not JSON, a JSON array, or a JSON object
ReplyContents ==
    { [json |-> "invalid", intent |-> JAbsent, similarity_course_code |-> JAbsent,
       requirement_type |-> JAbsent, detected_dept_code |-> JAbsent],
      [json |-> "array", intent |-> JAbsent, similarity_course_code |-> JAbsent,
       requirement_type |-> JAbsent, detected_dept_code |-> JAbsent] }
    \cup [json : {"object"}, intent : ReplyIntents, similarity_course_code : ReplyCourseCodes,
          requirement_type : ReplyRequirementTypes, detected_dept_code : ReplyDeptCodes]

\* The environments of a call: get_openai_client raises or not, the completion call
\* raises or not, and the content of the reply
ClassifyEnvs ==
    [client_raises : BOOLEAN, completion_raises : BOOLEAN, content : ReplyContents]

\* result.get(key): None for a missing key
GetOrNone(value) == IF value.t = "absent" THEN JNull ELSE value

\* The dictionary of the except branch
FallbackClassification ==
    [intent |-> <<"s","u","b","j","e","c","t">>, similarity_course_code |-> JNull,
     requirement_type |-> JNull, detected_dept_code |-> JNull]

\* No classification: the call has not returned, or it raised
NoClassification ==
    [intent |-> <<>>, similarity_course_code |-> JNull,
     requirement_type |-> JNull, detected_dept_code |-> JNull]

NotClassified == [raised |-> FALSE, value |-> NoClassification]

Returned(classification) == [raised |-> FALSE, value |-> classification]

\* The call ended with an exception that reached the caller
Raised == [raised |-> TRUE, value |-> NoClassification]

\* req_mapping.get(req_code, req_code)
req_mapping(req_code) ==
    IF req_code = <<"S","T","L">> THEN <<"S","E","L">>
    ELSE IF req_code = <<"S","T","N">> THEN <<"S","E","N">>
    ELSE IF req_code = <<"Q","R">> THEN <<"Q","C","R">>
    ELSE req_code

\* The try block on a reply: json.loads, the four result.get, intent.lower() and the
\* normalization of requirement_type; every exception inside it gives the fallback
ClassifyReply(content) ==
    IF content.json # "object" THEN Returned(FallbackClassification)
    ELSE IF content.intent.t \in {"null", "number"} THEN Returned(FallbackClassification)
    ELSE IF content.requirement_type.t = "number" THEN Returned(FallbackClassification)
    ELSE LET intent == IF content.intent.t = "absent" THEN <<"s","u","b","j","e","c","t">>
                       ELSE Lower(content.intent.v)
             requirement_type == GetOrNone(content.requirement_type)
         IN  Returned([intent |-> intent,
                       similarity_course_code |-> GetOrNone(content.similarity_course_code),
                       requirement_type |->
                           IF requirement_type.t = "str" /\ requirement_type.v # <<>>
                             THEN JStr(req_mapping(Upper(requirement_type.v)))
                             ELSE requirement_type,
                       detected_dept_code |-> GetOrNone(content.detected_dept_code)])

\* classify_query_with_llm: get_openai_client() is called before the try block, the
\* completion call and the handling of the reply are inside it
classify_query_with_llm(env) ==
    IF env.client_raises THEN Raised
    ELSE IF env.completion_raises THEN Returned(FallbackClassification)
    ELSE ClassifyReply(env.content)

IdleEnv == [client_raises |-> FALSE, completion_raises |-> FALSE,
            content |-> [json |-> "invalid", intent |-> JAbsent, similarity_course_code |-> JAbsent,
                         requirement_type |-> JAbsent, detected_dept_code |-> JAbsent]]

InitClassifyIdle ==
    /\ classify_env = IdleEnv
    /\ classify_out = NotClassified

InitClassify ==
    /\ classify_env \in ClassifyEnvs
    /\ classify_out = NotClassified

\* build_chat_prompt calls classify_query_with_llm
Classify ==
    /\ classify_out = NotClassified
    /\ classify_out' = classify_query_with_llm(classify_env)
    /\ UNCHANGED classify_env

(***************************************************************************)
(* The vector recommendation path (services/course_recommender.py):        *)
(* vector_search_courses, filter_and_rerank_courses and                    *)
(* get_vector_based_recommendations.                                       *)
(*                                                                         *)
(* A similarity is an integer number of thousandths; a final score is the  *)
(* similarity times the two adjustment factors, each in hundredths (so     *)
(* 1.2 is 120 and "no adjustment" is 100), which keeps the products exact. *)
(***************************************************************************)
\* Optional[int]: None, or an integer
NoInt == [set |-> FALSE, value |-> 0]

SomeInt(n) == [set |-> TRUE, value |-> n]

\* Optional[List[str]]: None, or a list
NoList == [set |-> FALSE, items |-> <<>>]

SomeList(l) == [set |-> TRUE, items |-> l]

\* Truthiness of an optional string
Truthy(s) == s # None /\ s # <<>>

DigitValue == [c \in Digits |-> CHOOSE n \in 0..9 : <<"0","1","2","3","4","5","6","7","8","9">>[n + 1] = c]

\* A plausible slip: the level read from the first digit found anywhere in the code
course_level_of_AnyDigit(course_code) ==
    LET digits == SelectSeq(course_code, IsDigit)
    IN  IF digits = <<>> THEN NoInt ELSE SomeInt(DigitValue[digits[1]] * 100)

\* course_level: int(course_code.split()[1][0]) * 100, None on IndexError / ValueError
course_level_of(course_code) ==
    LET parts == SplitWords(course_code)
    IN  IF Len(parts) < 2 THEN NoInt
        ELSE IF ~IsDigit(parts[2][1]) THEN NoInt
        ELSE SomeInt(DigitValue[parts[2][1]] * 100)

\* The factor for a course of the student's major, in hundredths
concentration_factor(course_code, concentration) ==
    IF Truthy(concentration) /\ Upper(SplitWords(course_code)[1]) = Upper(concentration)
      THEN 120 ELSE 100

\* The factor for the class year, in hundredths
grade_factor(course_level, grade) ==
    IF ~(Truthy(grade) /\ course_level.set /\ course_level.value # 0) THEN 100
    ELSE IF Lower(grade) \in { <<"f","r","e","s","h","m","a","n">>, <<"f","i","r","s","t","-","y","e","a","r">> }
      THEN IF course_level.value = 100 THEN 110
           ELSE IF course_level.value >= 300 THEN 80 ELSE 100
    ELSE IF Lower(grade) = <<"s","o","p","h","o","m","o","r","e">>
      THEN IF course_level.value = 200 THEN 110
           ELSE IF course_level.value >= 400 THEN 90 ELSE 100
    ELSE IF Lower(grade) \in { <<"j","u","n","i","o","r">>, <<"s","e","n","i","o","r">> }
      THEN IF course_level.value >= 300 THEN 105 ELSE 100
    ELSE 100

\* The three `continue` of the loop: similarity too low, already taken, level too high
Skipped(candidate, past, max_level, min_similarity) ==
    LET course_level == course_level_of(candidate.course_code)
    IN  \/ candidate.score < min_similarity
        \/ candidate.course_code \in past
        \/ /\ max_level.set /\ max_level.value # 0
           /\ course_level.set /\ course_level.value # 0
           /\ course_level.value > max_level.value

\* The statement outside the try block that can raise: course_code.split()[0] of a
\* candidate that is not skipped, when the concentration is given and the code is blank
rerank_raises(vector_results, past, concentration, max_level, min_similarity) ==
    \E i \in DOMAIN vector_results :
        /\ vector_results[i].score >= min_similarity
        /\ vector_results[i].course_code \notin past
        /\ Truthy(concentration)
        /\ SplitWords(vector_results[i].course_code) = <<>>

\* (course_code, final_score) of a candidate that is kept
Rescored(candidate, concentration, grade) ==
    [course_code |-> candidate.course_code,
     score |-> candidate.score
                 * concentration_factor(candidate.course_code, concentration)
                 * grade_factor(course_level_of(candidate.course_code), grade)]

HigherScore(a, b) == a.score > b.score

\* A plausible slip: sort ascending and reverse the list, which also reverses the
\* candidates of equal score
filter_and_rerank_courses_ReverseTies(vector_results, past, concentration, grade, max_level, min_similarity) ==
    LET Kept(candidate) == ~Skipped(candidate, past, max_level, min_similarity)
        filtered == SelectSeq(vector_results, Kept)
        LowerScore(a, b) == a.score < b.score
        ascending == StableSort([i \in DOMAIN filtered |-> Rescored(filtered[i], concentration, grade)],
                                LowerScore)
    IN  [i \in DOMAIN ascending |-> ascending[Len(ascending) + 1 - i]]

\* A plausible slip: the check against past_courses left out
filter_and_rerank_courses_KeepTaken(vector_results, past, concentration, grade, max_level, min_similarity) ==
    LET Kept(candidate) == ~Skipped(candidate, {}, max_level, min_similarity)
        filtered == SelectSeq(vector_results, Kept)
    IN  StableSort([i \in DOMAIN filtered |-> Rescored(filtered[i], concentration, grade)],
                   HigherScore)

\* filter_and_rerank_courses: the filtering loop, then sort(key=score, reverse=True)
filter_and_rerank_courses(vector_results, past, concentration, grade, max_level, min_similarity) ==
    LET Kept(candidate) == ~Skipped(candidate, past, max_level, min_similarity)
        filtered == SelectSeq(vector_results, Kept)
    IN  StableSort([i \in DOMAIN filtered |-> Rescored(filtered[i], concentration, grade)],
                   HigherScore)

\* list.sort(key=similarity, reverse=True)[:top_k] of (course_code, similarity) pairs
TopK(course_similarities, top_k) == Take(StableSort(course_similarities, HigherScore), top_k)

\* vector_search_courses.  embeddings is what get_course_embeddings_from_db loads and
\* courses_with_text what get_all_courses_with_text gives, each course with the
\* similarity of its embedding to the query's; embedding_ok tells whether
\* embedding_from_string answers.  The result is [raised, results].
vector_search_courses(embeddings, courses_with_text, embedding_ok, available_course_codes, top_k) ==
    LET all_courses == IF Len(embeddings) = 0 THEN courses_with_text ELSE embeddings
        Available(course) == InSeq(course.course_code, available_course_codes.items)
        courses == IF available_course_codes.set /\ available_course_codes.items # <<>>
                     THEN SelectSeq(all_courses, Available)
                     ELSE all_courses
    IN  IF Len(courses) = 0 THEN [raised |-> FALSE, results |-> <<>>]
        ELSE IF ~embedding_ok THEN [raised |-> TRUE, results |-> <<>>]
        ELSE [raised |-> FALSE, results |-> TopK(courses, top_k)]

\* _get_department_courses: f"{department_code} {catalog_num}" for the courses of the
\* subject that equals department_code in upper case
get_major_courses(department_code, catalog_codes) ==
    LET InDepartment(course_code) == Upper(SplitWords(course_code)[1]) = Upper(department_code)
        courses == SelectSeq(catalog_codes, InDepartment)
    IN  [i \in DOMAIN courses |-> department_code \o <<" ">> \o SplitWords(courses[i])[2]]

\* get_available_courses_for_prompt
get_available_courses_for_prompt(past, concentration, catalog_codes) ==
    IF past = {} /\ Truthy(concentration)
      THEN get_major_courses(concentration, catalog_codes)
      ELSE SelectSeq(catalog_codes, LAMBDA course_code : course_code \notin past)

similarity_keywords ==
    { <<"s","i","m","i","l","a","r"," ","t","o">>, <<"l","i","k","e">>, <<"s","a","m","e"," ","a","s">>, <<"e","q","u","i","v","a","l","e","n","t"," ","t","o">>, <<"c","o","m","p","a","r","a","b","l","e"," ","t","o">>, <<"r","e","l","a","t","e","d"," ","t","o">> }

\* any(keyword in query_lower for keyword in similarity_keywords)
is_similarity_query(user_query) ==
    /\ Truthy(user_query)
    /\ \E keyword \in similarity_keywords : Contains(Lower(user_query), keyword)

\* max_level from the class year
max_level_of(grade) ==
    IF ~Truthy(grade) THEN NoInt
    ELSE IF Lower(grade) \in { <<"f","r","e","s","h","m","a","n">>, <<"f","i","r","s","t","-","y","e","a","r">> } THEN SomeInt(200)
    ELSE IF Lower(grade) = <<"s","o","p","h","o","m","o","r","e">> THEN SomeInt(300)
    ELSE NoInt

CodesOf(results) == [i \in DOMAIN results |-> results[i].course_code]

\* A plausible slip: a failed vector search is caught and answered with the
\* available courses
get_vector_based_recommendations_Fallback(student_data_, user_query_, env, top_k, final_count) ==
    LET similarity == is_similarity_query(user_query_)
        available_courses ==
            IF similarity THEN NoList
            ELSE SomeList(get_available_courses_for_prompt(student_data_.past_courses,
                                                           student_data_.concentration, env.catalog_codes))
        search == vector_search_courses(env.embeddings, env.courses_with_text, env.embedding_ok,
                                        available_courses, top_k)
    IN  IF search.raised \/ search.results = <<>>
          THEN [raised |-> FALSE, embedding_failed |-> search.raised,
                codes |-> Take(available_courses.items, final_count)]
          ELSE [raised |-> FALSE, embedding_failed |-> FALSE,
                codes |-> Take(CodesOf(filter_and_rerank_courses(
                                  search.results, student_data_.past_courses,
                                  IF similarity THEN None ELSE student_data_.concentration,
                                  student_data_.grade, max_level_of(student_data_.grade), 100)),
                               final_count)]

\* get_vector_based_recommendations.  The result is [raised, embedding_failed, codes]:
\* an exception of the vector search is not caught here.
get_vector_based_recommendations(student_data_, user_query_, env, top_k, final_count) ==
    LET similarity == is_similarity_query(user_query_)
        available_courses ==
            IF similarity THEN NoList
            ELSE SomeList(get_available_courses_for_prompt(student_data_.past_courses,
                                                           student_data_.concentration, env.catalog_codes))
        search == vector_search_courses(env.embeddings, env.courses_with_text, env.embedding_ok,
                                        available_courses, top_k)
    IN  IF search.raised
          THEN [raised |-> TRUE, embedding_failed |-> TRUE, codes |-> <<>>]
        ELSE IF search.results = <<>>
          THEN [raised |-> FALSE, embedding_failed |-> FALSE,
                codes |-> Take(available_courses.items, final_count)]
          ELSE [raised |-> FALSE, embedding_failed |-> FALSE,
                codes |-> Take(CodesOf(filter_and_rerank_courses(
                                  search.results, student_data_.past_courses,
                                  IF similarity THEN None ELSE student_data_.concentration,
                                  student_data_.grade, max_level_of(student_data_.grade), 100)),
                               final_count)]

\* build_recommendation_prompt with use_vector_search=True: the courses listed in the
\* prompt are the vector candidates when there are any, else the available courses
build_recommendation_prompt(student_data_, available_courses, user_query_, env) ==
    LET candidate_courses == get_vector_based_recommendations(student_data_, user_query_, env, 50, 20)
    IN  [raised |-> candidate_courses.raised,
         embedding_failed |-> candidate_courses.embedding_failed,
         available_courses |-> IF candidate_courses.codes # <<>> THEN candidate_courses.codes
                               ELSE available_courses]

(***************************************************************************)
(* The recommendation route get_course_recommendations                     *)
(* (api/routes/recommendations.py).                                        *)
(***************************************************************************)
VARIABLES
    rec_pc,          \* "idle" | "generate" | "done"
    student_data,    \* what get_student_data returns: past_courses (keys), concentration, grade
    user_query,      \* the query parameter, None when absent
    search_env,      \* the embeddings store, the catalog and the embedding API
    prompt_courses,  \* the available courses written into the prompt
    rec_response,    \* [status, courses], status 0 until answered
    rec_failure      \* the stages that failed: "embedding", "generate"

recoVars == <<rec_pc, student_data, user_query, search_env, prompt_courses, rec_response,
              rec_failure>>

\* The course codes of course_details.json in this part of the model
RecoCatalog == << <<"C","O","S"," ","1","2","6">>, <<"C","O","S"," ","2","2","6">>, <<"C","O","S"," ","3","3","3">>, <<"M","A","T"," ","2","0","1">> >>

\* Courses with the similarity of their embedding to the query's, in the order of
\* the store; the second course is the closest one
Store ==
    << [course_code |-> <<"C","O","S"," ","1","2","6">>, score |-> 650],
       [course_code |-> <<"C","O","S"," ","2","2","6">>, score |-> 900],
       [course_code |-> <<"C","O","S"," ","3","3","3">>, score |-> 650],
       [course_code |-> <<"M","A","T"," ","2","0","1">>, score |-> 99] >>

SearchEnvs ==
    [embeddings : {<<>>, Store}, courses_with_text : {<<>>, Store},
     embedding_ok : BOOLEAN, catalog_codes : {RecoCatalog}]

StudentProfiles ==
    { [past_courses |-> {}, concentration |-> None, grade |-> None],
      [past_courses |-> {}, concentration |-> <<"C","O","S">>, grade |-> <<"F","r","e","s","h","m","a","n">>],
      [past_courses |-> {}, concentration |-> <<"E","C","O">>, grade |-> <<"J","u","n","i","o","r">>],
      [past_courses |-> { <<"C","O","S","2","2","6">> }, concentration |-> <<"c","o","s">>, grade |-> <<"s","o","p","h","o","m","o","r","e">>],
      [past_courses |-> { <<"C","O","S"," ","1","2","6">> }, concentration |-> <<"M","A","T">>, grade |-> None] }

UserQueries == { None, <<"s","i","m","i","l","a","r"," ","t","o"," ","C","O","S"," ","2","2","6">>, <<"i","n","t","r","o"," ","s","t","a","t","i","s","t","i","c","s">> }

\* The completion texts of this part: five codes, two codes, prose with codes, and a
\* JSON object whose list is null
RouteReplies ==
    { [kind |-> "list", key |-> "", items |-> <<COS_126, ECO100, COS_126, ECO100, COS_126>>],
      [kind |-> "list", key |-> "", items |-> <<COS_126, ECO100>>],
      [kind |-> "text", key |-> "", items |-> <<COS_126, bad, ECO100>>],
      [kind |-> "dict_null", key |-> "courses", items |-> <<>>] }

NoRecResponse == [status |-> 0, courses |-> <<>>]

\* extract_course_details: the details of the catalog course with this subject and
\* catalog number, None when there is none
extract_course_details(course_code, catalog_codes) ==
    IF \E i \in DOMAIN catalog_codes : Unspaced(Upper(course_code)) = Unspaced(catalog_codes[i])
      THEN course_code ELSE None

\* course_details_list of the route
CourseDetailsList(recommended_course_codes, catalog_codes) ==
    SelectSeq(recommended_course_codes,
              LAMBDA course_code : extract_course_details(course_code, catalog_codes) # None)

InitRecoIdle ==
    /\ rec_pc = "idle"
    /\ student_data = [past_courses |-> {}, concentration |-> None, grade |-> None]
    /\ user_query = None
    /\ search_env = [embeddings |-> <<>>, courses_with_text |-> <<>>, embedding_ok |-> TRUE,
                     catalog_codes |-> RecoCatalog]
    /\ prompt_courses = <<>>
    /\ rec_response = NoRecResponse
    /\ rec_failure = {}

InitReco ==
    /\ rec_pc = "idle"
    /\ student_data \in StudentProfiles
    /\ user_query \in UserQueries
    /\ search_env \in SearchEnvs
    /\ prompt_courses = <<>>
    /\ rec_response = NoRecResponse
    /\ rec_failure = {}

\* The route up to the call of generate_course_recommendations: the session check,
\* get_available_courses_for_prompt and build_recommendation_prompt
ReceiveRecommendationRequest ==
    /\ rec_pc = "idle"
    /\ \E authenticated \in BOOLEAN :
         \E available_courses \in {get_available_courses_for_prompt(
                student_data.past_courses, student_data.concentration, search_env.catalog_codes)} :
         \E prompt \in {build_recommendation_prompt(student_data, available_courses, user_query,
                                                    search_env)} :
            IF ~authenticated
              THEN /\ rec_response' = [status |-> 401, courses |-> <<>>]
                   /\ rec_pc' = "done"
                   /\ UNCHANGED <<prompt_courses, rec_failure, llmVars>>
            ELSE IF available_courses = <<>>
              THEN /\ rec_response' = [status |-> 400, courses |-> <<>>]
                   /\ rec_pc' = "done"
                   /\ UNCHANGED <<prompt_courses, rec_failure, llmVars>>
            ELSE /\ rec_failure' = IF prompt.embedding_failed THEN {"embedding"} ELSE {}
                 /\ IF prompt.raised
                      THEN /\ rec_response' = [status |-> 500, courses |-> <<>>]
                           /\ rec_pc' = "done"
                           /\ UNCHANGED <<prompt_courses, llmVars>>
                      ELSE /\ prompt_courses' = prompt.available_courses
                           /\ rec_pc' = "generate"
                           /\ StartInvocation("reco")
                           /\ UNCHANGED rec_response
    /\ UNCHANGED <<student_data, user_query, search_env>>

\* The route after an attempt of generate_course_recommendations: nothing while the
\* loop goes on, 200 with the details found for the returned codes, 400 for a
\* ValueError and 500 for any other exception
AfterAttempt ==
    IF llm_pc'["reco"] = "call"
      THEN UNCHANGED <<rec_pc, rec_response, rec_failure>>
    ELSE IF llm_pc'["reco"] = "returned"
      THEN /\ rec_response' = [status |-> 200,
                               courses |-> CourseDetailsList(llm_result'["reco"],
                                                             search_env.catalog_codes)]
           /\ rec_pc' = "done"
           /\ UNCHANGED rec_failure
    ELSE /\ rec_response' = [status |-> IF llm_error'["reco"] \in {"ValueError", "exhausted"}
                                          THEN 400 ELSE 500,
                             courses |-> <<>>]
         /\ rec_pc' = "done"
         /\ rec_failure' = rec_failure \cup {"generate"}

\* An attempt of generate_course_recommendations whose completion call raises
RecoAttemptFails ==
    /\ rec_pc = "generate"
    /\ CompletionFails("reco")
    /\ AfterAttempt
    /\ UNCHANGED <<student_data, user_query, search_env, prompt_courses>>

\* An attempt of generate_course_recommendations whose completion call answers
RecoAttemptReturns ==
    /\ rec_pc = "generate"
    /\ llm_pc["reco"] = "call"
    /\ api_calls["reco"] < CallCap
    /\ api_calls' = [api_calls EXCEPT !["reco"] = @ + 1]
    /\ \E reply \in RouteReplies : RecoHandleReply("reco", reply)
    /\ AfterAttempt
    /\ UNCHANGED <<student_data, user_query, search_env, prompt_courses>>

(***************************************************************************)
(* filter_and_rerank_courses on its own, and the two places that answer a  *)
(* similarity query: get_vector_based_recommendations and the similarity   *)
(* block of build_chat_prompt (llm/chat_prompts.py).                       *)
(***************************************************************************)
VARIABLES
    rerank_call,    \* a call of filter_and_rerank_courses: its arguments and its result
    similar_call    \* a similarity query: the course code the classifier extracted,
                    \* the candidates of get_vector_based_recommendations and the
                    \* courses listed by the similarity block

callVars == <<rerank_call, similar_call>>

\* Longest list of vector results given to filter_and_rerank_courses
MaxResults == 2

\* Course codes of vector results: levels 100, 200 and 300, a catalog number that
\* does not start with a digit and a code without a catalog number
RerankCodes == { <<"C","O","S"," ","1","2","6">>, <<"C","O","S"," ","2","2","6">>, <<"E","C","O"," ","3","3","3">>, <<"T","R","A"," ","S","1","0">>, <<"C","O","S">> }

\* Similarities in thousandths, around the threshold 0.1
RerankScores == { 99, 100, 900 }

\* Vector results as vector_search_courses returns them: one entry per course, in
\* descending order of similarity
VectorResults ==
    { s \in SeqsUpTo([course_code : RerankCodes, score : RerankScores], MaxResults) :
        \A i \in DOMAIN s : \A j \in DOMAIN s :
            i < j => (s[i].course_code # s[j].course_code /\ s[i].score >= s[j].score) }

RerankCalls ==
    [vector_results : VectorResults,
     past_courses : { {}, { <<"C","O","S"," ","1","2","6">> } },
     concentration : { None, <<"c","o","s">> },
     grade : { None, <<"F","r","e","s","h","m","a","n">>, <<"S","e","n","i","o","r">> },
     max_level : { NoInt, SomeInt(200), SomeInt(300) },
     min_similarity : { 0, 100 },
     done : {FALSE},
     result : {<<>>}]

NoRerankCall ==
    [vector_results |-> <<>>, past_courses |-> {}, concentration |-> None, grade |-> None,
     max_level |-> NoInt, min_similarity |-> 0, done |-> FALSE, result |-> <<>>]

\* The call returns
FilterAndRerank ==
    /\ ~rerank_call.done
    /\ rerank_call' = [rerank_call EXCEPT
          !.done = TRUE,
          !.result = filter_and_rerank_courses(
                        rerank_call.vector_results, rerank_call.past_courses,
                        rerank_call.concentration, rerank_call.grade,
                        rerank_call.max_level, rerank_call.min_similarity)]
    /\ UNCHANGED similar_call

\* The similarity block of build_chat_prompt for the reference course
\* similarity_course_code: the first 15 of the 20 nearest courses, without the ones
\* whose code equals the reference code in upper case and without the ones that have
\* no details; a failed vector search is caught and lists nothing
similarity_block(similarity_course_code, env) ==
    LET search == vector_search_courses(env.embeddings, env.courses_with_text, env.embedding_ok,
                                        NoList, 20)
        Listed(course_code) ==
            /\ Upper(course_code) # Upper(similarity_course_code)
            /\ extract_course_details(course_code, env.catalog_codes) # None
    IN  IF search.raised THEN <<>>
        ELSE SelectSeq(CodesOf(Take(search.results, 15)), Listed)

\* The similarity queries of the model, all about COS 226
SimilarityQueries == { <<"s","i","m","i","l","a","r"," ","t","o"," ","C","O","S"," ","2","2","6">>, <<"s","o","m","e","t","h","i","n","g"," ","l","i","k","e"," ","c","o","s","2","2","6">> }

\* What the classifier may extract from them as similarity_course_code
ExtractedCodes == { <<"C","O","S"," ","2","2","6">>, <<"c","o","s"," ","2","2","6">>, <<"C","O","S","2","2","6">> }

NoSimilarCall ==
    [done |-> FALSE, similarity_course_code |-> None,
     recommendations |-> [raised |-> FALSE, embedding_failed |-> FALSE, codes |-> <<>>],
     listing |-> <<>>]

\* A similarity query is answered by both paths
FindSimilar ==
    /\ ~similar_call.done
    /\ similar_call.similarity_course_code # None
    /\ similar_call' = [similar_call EXCEPT
          !.done = TRUE,
          !.recommendations = get_vector_based_recommendations(student_data, user_query,
                                                               search_env, 50, 20),
          !.listing = similarity_block(similar_call.similarity_course_code, search_env)]
    /\ UNCHANGED rerank_call

InitCallsIdle ==
    /\ rerank_call = NoRerankCall
    /\ similar_call = NoSimilarCall

\* filter_and_rerank_courses is about to be called
InitRerank ==
    /\ rerank_call \in RerankCalls
    /\ similar_call = NoSimilarCall

\* A similarity query about COS 226 is about to be answered
InitSimilar ==
    /\ rec_pc = "idle"
    /\ student_data \in StudentProfiles
    /\ user_query \in SimilarityQueries
    /\ search_env \in SearchEnvs
    /\ prompt_courses = <<>>
    /\ rec_response = NoRecResponse
    /\ rec_failure = {}
    /\ rerank_call = NoRerankCall
    /\ similar_call \in { [NoSimilarCall EXCEPT !.similarity_course_code = c] : c \in ExtractedCodes }

(***************************************************************************)
(* parse_course_codes and normalize_course_code on their own               *)
(* (openai_service.py).                                                    *)
(***************************************************************************)
VARIABLES
    parse_call,      \* one attempt of generate_course_recommendations: the completion
                     \* text, what parse_course_codes made of it and what the loop did
    normalize_call   \* normalize_course_code on a spelling, then on its own result

parseVars == <<parse_call, normalize_call>>

\* The completion texts json.loads accepts
JsonReplies == { reply \in Replies : reply.kind # "text" }

NotParsed == [raised |-> FALSE, codes |-> <<>>]

NoDecision == [pc |-> "idle", attempt |-> 0, result |-> <<>>, error |-> "none"]

NoParseCall == [reply |-> NoReply, attempt |-> 0, done |-> FALSE,
                parsed |-> NotParsed, decision |-> NoDecision]

\* The first and the last attempt of the loop
ParseCalls ==
    { [NoParseCall EXCEPT !.reply = reply, !.attempt = a] :
        reply \in JsonReplies, a \in {0, max_retries - 1} }

\* The body of the loop of generate_course_recommendations once the completion
\* answered: parse, then return, retry or raise; an exception of the parser is caught
\* by `except Exception` like a failed call
AttemptOn(reply, a) ==
    LET parsed == parse_course_codes(reply)
        nxt    == AfterFailure(a)
    IN  [parsed   |-> parsed,
         decision |-> IF parsed.raised
                        THEN [pc |-> nxt.pc, attempt |-> nxt.attempt, result |-> <<>>,
                              error |-> ErrorAfter(nxt, "TypeError")]
                        ELSE RecoDecision(parsed.codes, a)]

ParseReply ==
    /\ ~parse_call.done
    /\ \E out \in {AttemptOn(parse_call.reply, parse_call.attempt)} :
          parse_call' = [parse_call EXCEPT !.done = TRUE, !.parsed = out.parsed,
                                           !.decision = out.decision]
    /\ UNCHANGED normalize_call

\* Spellings of course codes and of things that are none: a subject, a separator, a
\* number, written bare, between blanks or between quotes
Subjects == { <<"c","o","s">>, <<"C","O","S">>, <<"C","o","s">>, <<"A","B">>, <<"E","C","O","N">> }

Joints == { <<>>, <<" ">>, <<" "," ">>, <<"-">>, <<" ","-"," ">>, <<"_">> }

Numbers == { <<"1","2","6">>, <<"1","2">>, <<"1","2","6","6">>, <<"1","2","a">> }

Wrappings == { <<<<>>, <<>>>>, <<<<" ">>, <<"\n">>>>, <<<<"\"">>, <<"\"">>>>, <<<<"'">>, <<>>>> }

Spellings ==
    { w[1] \o s \o j \o n \o w[2] : s \in Subjects, j \in Joints, n \in Numbers, w \in Wrappings }
    \cup { <<>> }

NoNormalizeCall == [course_code |-> <<>>, step |-> 0, result |-> None, again |-> None]

NormalizeCalls == { [NoNormalizeCall EXCEPT !.course_code = c] : c \in Spellings }

Normalize ==
    /\ normalize_call.step = 0
    /\ normalize_call' = [normalize_call EXCEPT
          !.step = 1, !.result = normalize_course_code(normalize_call.course_code)]
    /\ UNCHANGED parse_call

\* The result given to normalize_course_code again
NormalizeAgain ==
    /\ normalize_call.step = 1
    /\ normalize_call.result # None
    /\ normalize_call' = [normalize_call EXCEPT
          !.step = 2, !.again = normalize_course_code(normalize_call.result)]
    /\ UNCHANGED parse_call

InitParseIdle ==
    /\ parse_call = NoParseCall
    /\ normalize_call = NoNormalizeCall

InitParse ==
    /\ parse_call \in ParseCalls
    /\ normalize_call = NoNormalizeCall

InitNormalize ==
    /\ parse_call = NoParseCall
    /\ normalize_call \in NormalizeCalls

(***************************************************************************)
(* Context fusion: are_queries_related and enhance_query_with_context      *)
(* (llm/context_manager.py).                                               *)
(***************************************************************************)
VARIABLES
    context_call   \* a call of enhance_query_with_context: the current query, the
                   \* history, what are_queries_related answered and the query returned

contextVars == <<context_call>>

\* The elements of a set of texts in ascending order
SortedTexts(S) ==
    [k \in 1..Cardinality(S) |-> CHOOSE x \in S : Cardinality({ y \in S : StrLess(y, x) }) = k - 1]

\* list[::-1]
Reversed(s) == [i \in DOMAIN s |-> s[Len(s) + 1 - i]]

\* len(text.split())
WordCount(text) == Len(SplitWords(text))

\* str.startswith(prefix)
StartsWith(text, prefix) == Len(prefix) <= Len(text) /\ SubSeq(text, 1, Len(prefix)) = prefix

\* any(keyword in text for keyword in keywords)
ContainsAny(text, keywords) == \E k \in DOMAIN keywords : Contains(text, keywords[k])

\* A match of r'\b(word)\b' at position i of text
WordMatchAt(text, i, word) ==
    /\ i + Len(word) - 1 <= Len(text)
    /\ SubSeq(text, i, i + Len(word) - 1) = word
    /\ (i = 1 \/ ~IsWordChar(text[i - 1]))
    /\ (i + Len(word) > Len(text) \/ ~IsWordChar(text[i + Len(word)]))

\* re.findall(r'\b(w1|w2|...)\b', text): the words matched, from left to right
FindWords(text, words) ==
    LET hits == { i \in DOMAIN text : \E w \in Range(words) : WordMatchAt(text, i, w) }
        nth(k) == CHOOSE i \in hits : Cardinality({ j \in hits : j < i }) = k - 1
    IN  [k \in 1..Cardinality(hits) |->
            CHOOSE w \in Range(words) : WordMatchAt(text, nth(k), w)]

\* dict.get(key, key) for a dict written as a sequence of <<key, value>>
Mapped(pairs, key) ==
    IF \E p \in DOMAIN pairs : pairs[p][1] = key
      THEN pairs[CHOOSE p \in DOMAIN pairs : pairs[p][1] = key][2]
      ELSE key

continuation_keywords ==
    << <<"n","o","t"," ","i","n">>, <<"n","o","t"," ","f","r","o","m">>, <<"e","x","c","l","u","d","i","n","g">>, <<"e","x","c","e","p","t">>, <<"b","u","t"," ","n","o","t">>, <<"a","l","s","o">>,
       <<"a","n","d">>, <<"p","l","u","s">>, <<"a","d","d","i","t","i","o","n","a","l","l","y">>, <<"f","u","r","t","h","e","r","m","o","r","e">>, <<"w","h","a","t"," ","a","b","o","u","t">>, <<"h","o","w"," ","a","b","o","u","t">>,
       <<"t","e","l","l"," ","m","e"," ","m","o","r","e">>, <<"m","o","r","e">>, <<"d","i","f","f","e","r","e","n","t">>, <<"o","t","h","e","r">>, <<"i","n","s","t","e","a","d">>, <<"r","a","t","h","e","r">>,
       <<"b","u","t">>, <<"h","o","w","e","v","e","r">>, <<"a","l","t","h","o","u","g","h">>, <<"t","h","o","u","g","h">> >>

continuation_words ==
    << <<"i","t">>, <<"t","h","a","t">>, <<"t","h","i","s">>, <<"t","h","o","s","e">>, <<"t","h","e","s","e">>, <<"t","h","e","m">>,
       <<"t","h","e"," ","s","a","m","e">>, <<"t","h","e"," ","o","n","e">>, <<"t","h","o","s","e"," ","o","n","e","s">>, <<"t","h","e"," ","c","o","u","r","s","e">>, <<"t","h","e"," ","c","l","a","s","s">>, <<"t","h","e"," ","r","e","q","u","i","r","e","m","e","n","t">> >>

exclusion_prefixes ==
    << <<"n","o","t"," ">>, <<"n","o","t"," ","i","n">>, <<"n","o","t"," ","f","r","o","m">>, <<"e","x","c","l","u","d","i","n","g">>, <<"e","x","c","e","p","t">>, <<"b","u","t"," ","n","o","t">>,
       <<"b","u","t"," ","n","o","t"," ","i","n">>, <<"b","u","t"," ","n","o","t"," ","f","r","o","m">> >>

dist_codes_pattern ==
    << <<"C","D">>, <<"E","C">>, <<"E","M">>, <<"H","A">>, <<"L","A">>, <<"Q","C","R">>,
       <<"S","E","L">>, <<"S","E","N">>, <<"S","A">>, <<"S","T","L">>, <<"S","T","N">>, <<"Q","R">> >>

dist_mapping == << <<<<"S","T","L">>, <<"S","E","L">>>>, <<<<"S","T","N">>, <<"S","E","N">>>>, <<<<"Q","R">>, <<"Q","C","R">>>> >>

phrase_mapping ==
    <<
       <<<<"c","u","l","t","u","r","e"," ","a","n","d"," ","d","i","f","f","e","r","e","n","c","e">>, <<"C","D">>>>, <<<<"e","p","i","s","t","e","m","o","l","o","g","y"," ","a","n","d"," ","c","o","g","n","i","t","i","o","n">>, <<"E","C">>>>,
       <<<<"e","t","h","i","c","a","l"," ","t","h","o","u","g","h","t">>, <<"E","M">>>>, <<<<"h","i","s","t","o","r","i","c","a","l"," ","a","n","a","l","y","s","i","s">>, <<"H","A">>>>,
       <<<<"l","i","t","e","r","a","t","u","r","e"," ","a","n","d"," ","t","h","e"," ","a","r","t","s">>, <<"L","A">>>>, <<<<"q","u","a","n","t","i","t","a","t","i","v","e"," ","a","n","d"," ","c","o","m","p","u","t","a","t","i","o","n","a","l"," ","r","e","a","s","o","n","i","n","g">>, <<"Q","C","R">>>>,
       <<<<"s","c","i","e","n","c","e"," ","a","n","d"," ","e","n","g","i","n","e","e","r","i","n","g">>, <<"S","E","N">>>>, <<<<"s","o","c","i","a","l"," ","a","n","a","l","y","s","i","s">>, <<"S","A">>>> >>

common_depts ==
    {
       <<"A","A","S">>, <<"A","M","S">>, <<"A","N","T">>, <<"A","R","T">>, <<"A","S","T">>, <<"A","T","L">>, <<"B","C","S">>, <<"C","B","E">>, <<"C","H","M">>, <<"C","L","A">>,
       <<"C","O","M">>, <<"C","O","S">>, <<"C","W","R">>, <<"E","A","S">>, <<"E","C","E">>, <<"E","C","O">>, <<"E","E","B">>, <<"E","G","R">>, <<"E","N","G">>, <<"E","N","T">>,
       <<"E","N","V">>, <<"E","P","S">>, <<"F","I","N">>, <<"F","R","E">>, <<"G","E","O">>, <<"G","E","R">>, <<"G","H","P">>, <<"G","L","S">>, <<"G","S","S">>, <<"H","I","S">>,
       <<"H","L","S">>, <<"H","O","S">>, <<"H","U","M">>, <<"I","S","C">>, <<"I","T","A">>, <<"J","P","N">>, <<"J","R","N">>, <<"L","A","S">>, <<"L","A","T">>, <<"L","I","N">>,
       <<"M","A","E">>, <<"M","A","T">>, <<"M","E","D">>, <<"M","O","L">>, <<"M","U","S">>, <<"N","E","S">>, <<"N","E","U">>, <<"O","R","F">>, <<"P","A","W">>, <<"P","E","R">>,
       <<"P","H","I">>, <<"P","H","Y">>, <<"P","O","L">>, <<"P","O","R">>, <<"P","S","Y">>, <<"R","E","L">>, <<"R","U","S">>, <<"S","L","A">>, <<"S","O","C">>, <<"S","P","A">>,
       <<"S","P","I">>, <<"S","T","C">>, <<"T","H","R">>, <<"T","U","R">>, <<"U","R","B">>, <<"V","I","S">>, <<"W","W","S">> }

subject_keywords ==
    <<
       <<<<"c","o","m","p","u","t","e","r"," ","s","c","i","e","n","c","e">>, <<"C","O","S">>>>, <<<<"c","s">>, <<"C","O","S">>>>, <<<<"p","r","o","g","r","a","m","m","i","n","g">>, <<"C","O","S">>>>,
       <<<<"e","c","o","n","o","m","i","c","s">>, <<"E","C","O">>>>, <<<<"h","i","s","t","o","r","y">>, <<"H","I","S">>>>, <<<<"p","h","i","l","o","s","o","p","h","y">>, <<"P","H","I">>>>,
       <<<<"m","a","t","h">>, <<"M","A","T">>>>, <<<<"m","a","t","h","e","m","a","t","i","c","s">>, <<"M","A","T">>>>, <<<<"p","h","y","s","i","c","s">>, <<"P","H","Y">>>>,
       <<<<"c","h","e","m","i","s","t","r","y">>, <<"C","H","M">>>>, <<<<"b","i","o","l","o","g","y">>, <<"M","O","L">>>>, <<<<"e","n","g","l","i","s","h">>, <<"E","N","G">>>>,
       <<<<"l","i","t","e","r","a","t","u","r","e">>, <<"E","N","G">>>>, <<<<"p","o","l","i","t","i","c","s">>, <<"P","O","L">>>>, <<<<"p","s","y","c","h","o","l","o","g","y">>, <<"P","S","Y">>>>,
       <<<<"s","o","c","i","o","l","o","g","y">>, <<"S","O","C">>>>, <<<<"a","r","t">>, <<"A","R","T">>>>, <<<<"m","u","s","i","c">>, <<"M","U","S">>>>,
       <<<<"t","h","e","a","t","e","r">>, <<"T","H","R">>>> >>

\* Matches of r'\b([A-Z]{2,4})\s*(\d{3})\b' as f"{subject} {number}", from left to right
CourseCodeAt(text, i) ==
    LET n       == Len(text)
        letters == { j \in i..n : \A k \in i..j : IsUpperLetter(text[k]) }
        L       == Cardinality(letters)
        blanks  == { j \in (i + L)..n : \A k \in (i + L)..j : IsSpace(text[k]) }
        d       == i + L + Cardinality(blanks)
    IN  IF /\ (i = 1 \/ ~IsWordChar(text[i - 1]))
           /\ L >= 2 /\ L <= 4
           /\ d + 2 <= n
           /\ \A k \in 0..2 : IsDigit(text[d + k])
           /\ (d + 3 > n \/ ~IsWordChar(text[d + 3]))
          THEN SubSeq(text, i, i + L - 1) \o <<" ">> \o SubSeq(text, d, d + 2)
          ELSE None

FindCourseCodes(text) ==
    LET hits == { i \in DOMAIN text : CourseCodeAt(text, i) # None }
        nth(k) == CHOOSE i \in hits : Cardinality({ j \in hits : j < i }) = k - 1
    IN  [k \in 1..Cardinality(hits) |-> CourseCodeAt(text, nth(k))]

\* The words r'\b([A-Z]{2,4})\b' finds, as a set
PotentialDepts(text) ==
    { w \in common_depts : \E i \in DOMAIN text : WordMatchAt(text, i, w) }

\* The loop over subject_keywords: the departments appended and the keywords found
RECURSIVE SubjectLoop(_, _, _)
SubjectLoop(query_lower, k, acc) ==
    IF k > Len(subject_keywords) THEN acc
    ELSE IF Contains(query_lower, subject_keywords[k][1])
      THEN SubjectLoop(query_lower, k + 1,
             [department_codes |->
                 IF InSeq(subject_keywords[k][2], acc.department_codes)
                   THEN acc.department_codes
                   ELSE Append(acc.department_codes, subject_keywords[k][2]),
              subject_areas |-> Append(acc.subject_areas, subject_keywords[k][1])])
      ELSE SubjectLoop(query_lower, k + 1, acc)

\* _extract_entities(query).  set_order is the order in which Python iterates over the
\* set potential_depts, which the language leaves open: ascending or descending here.
extract_entities(query, set_order) ==
    LET query_upper == Upper(query)
        query_lower == Lower(query)
        codes       == FindWords(query_upper, dist_codes_pattern)
        from_codes  == AppendNew(<<>>, [i \in DOMAIN codes |-> Mapped(dist_mapping, codes[i])])
        phrases     == FindWords(query_lower, [i \in DOMAIN phrase_mapping |-> phrase_mapping[i][1]])
        from_phrases == AppendNew(<<>>, [i \in DOMAIN phrases |-> Mapped(phrase_mapping, phrases[i])])
        found_codes == AppendNew(<<>>, FindCourseCodes(query_upper))
        sorted      == SortedTexts(PotentialDepts(query_upper))
        depts       == IF set_order = "descending" THEN Reversed(sorted) ELSE sorted
        looped      == SubjectLoop(query_lower, 1, [department_codes |-> depts, subject_areas |-> <<>>])
    IN  [distribution_codes |-> IF from_codes # <<>> THEN from_codes ELSE from_phrases,
         department_codes   |-> looped.department_codes,
         course_codes       |-> found_codes,
         subject_areas      |-> looped.subject_areas]

\* _references_previous_context(current_query, ...)
references_previous_context(current_query) ==
    LET current_lower         == Lower(current_query)
        has_continuation_word == ContainsAny(current_lower, continuation_words)
        is_short_followup     == WordCount(current_query) <= 5
        starts_with_exclusion ==
            \E p \in DOMAIN exclusion_prefixes : StartsWith(current_lower, exclusion_prefixes[p])
    IN  has_continuation_word \/ (is_short_followup /\ starts_with_exclusion)

\* len(a & b) / max(len(a | b), 1) in twelfths; the sets of the model have unions of
\* 1, 2, 3, 4, 6 or 12 elements
OverlapTwelfths(a, b) ==
    LET union == IF Cardinality(a \cup b) > 1 THEN Cardinality(a \cup b) ELSE 1
    IN  (12 * Cardinality(a \cap b)) \div union

\* The sums dist*0.4 + course*0.3 + dept*0.2 + subject*0.1 that are 0.3 in exact
\* arithmetic and 0.30000000000000004 in double arithmetic, as twelfths
\* <<dist, course, dept, subject>>
RoundedAboveThreshold ==
    { <<0,0,12,12>>, <<0,1,11,11>>, <<0,1,12,9>>, <<0,2,9,12>>, <<0,2,10,10>>, <<0,3,9,9>>,
      <<0,3,10,7>>, <<0,3,11,5>>, <<0,3,12,3>>, <<0,4,6,12>>, <<0,4,7,10>>, <<0,5,5,11>>,
      <<0,5,6,9>>, <<0,5,7,7>>, <<0,5,9,3>>, <<0,5,10,1>>, <<0,6,3,12>>, <<0,6,4,10>>,
      <<0,6,9,0>>, <<0,7,2,11>>, <<0,7,3,9>>, <<0,7,4,7>>, <<0,7,5,5>>, <<0,7,6,3>>,
      <<0,7,7,1>>, <<1,0,10,12>>, <<1,0,11,10>>, <<1,1,9,11>>, <<1,1,10,9>>, <<1,1,11,7>>,
      <<1,1,12,5>>, <<1,2,7,12>>, <<1,2,8,10>>, <<1,3,6,11>>, <<1,3,7,9>>, <<1,3,9,5>>,
      <<1,3,10,3>>, <<1,3,11,1>>, <<1,4,4,12>>, <<1,4,5,10>>, <<1,4,10,0>>, <<1,5,7,3>>,
      <<1,7,0,11>>, <<1,7,1,9>>, <<1,7,3,5>>, <<1,7,4,3>>, <<1,7,5,1>>, <<2,0,8,12>>,
      <<2,0,9,10>>, <<2,1,7,11>>, <<2,1,9,7>>, <<2,1,10,5>>, <<2,1,11,3>>, <<2,1,12,1>>,
      <<2,2,5,12>>, <<2,2,6,10>>, <<2,2,9,4>>, <<2,2,11,0>>, <<2,3,5,9>>, <<2,3,7,5>>,
      <<2,3,8,3>>, <<2,3,9,1>>, <<2,4,3,10>>, <<2,5,5,3>>, <<2,6,0,10>>, <<2,6,5,0>>,
      <<2,7,0,7>>, <<2,7,1,5>>, <<2,7,2,3>>, <<2,7,3,1>>, <<3,0,6,12>>, <<3,0,7,10>>,
      <<3,0,10,4>>, <<3,0,12,0>>, <<3,1,5,11>>, <<3,1,6,9>>, <<3,1,7,7>>, <<3,1,9,3>>,
      <<3,1,10,1>>, <<3,2,3,12>>, <<3,2,4,10>>, <<3,2,9,0>>, <<3,3,6,3>>, <<3,3,7,1>>,
      <<3,4,0,12>>, <<3,4,1,10>>, <<3,4,6,0>>, <<3,5,0,9>>, <<3,5,2,5>>, <<3,5,3,3>>,
      <<3,5,4,1>>, <<3,7,0,3>>, <<3,7,1,1>>, <<4,0,4,12>>, <<4,0,5,10>>, <<4,0,10,0>>,
      <<4,1,7,3>>, <<5,0,2,12>>, <<5,0,3,10>>, <<5,0,6,4>>, <<5,0,7,2>>, <<5,0,8,0>>,
      <<5,1,1,11>>, <<5,1,2,9>>, <<5,1,3,7>>, <<5,1,4,5>>, <<5,1,5,3>>, <<5,1,6,1>>,
      <<5,2,0,10>>, <<5,2,5,0>>, <<5,3,0,7>>, <<5,3,1,5>>, <<5,3,2,3>>, <<5,3,3,1>>,
      <<5,5,0,1>>, <<6,0,0,12>>, <<6,0,1,10>>, <<6,0,6,0>>, <<6,1,0,9>>, <<6,1,2,5>>,
      <<6,1,3,3>>, <<6,1,4,1>>, <<6,3,0,3>>, <<6,3,1,1>>, <<7,0,0,8>>, <<7,0,1,6>>,
      <<7,0,2,4>>, <<7,0,3,2>>, <<7,0,4,0>>, <<7,1,0,5>>, <<7,1,1,3>>, <<7,1,2,1>>,
      <<7,2,0,2>>, <<7,2,1,0>>, <<8,1,0,1>>, <<9,0,0,0>> }

\* _calculate_entity_overlap(current_entities, previous_entities) > threshold, with
\* threshold = 0.3: the weighted sum in units of 1/120
entity_overlap_exceeds(current_entities, previous_entities) ==
    LET All(field(_)) == UNION { Range(field(previous_entities[i])) : i \in DOMAIN previous_entities }
        Dist(e)    == e.distribution_codes
        Dept(e)    == e.department_codes
        Course(e)  == e.course_codes
        Subject(e) == e.subject_areas
        d == OverlapTwelfths(Range(current_entities.distribution_codes), All(Dist))
        c == OverlapTwelfths(Range(current_entities.course_codes), All(Course))
        p == OverlapTwelfths(Range(current_entities.department_codes), All(Dept))
        s == OverlapTwelfths(Range(current_entities.subject_areas), All(Subject))
        total == 4 * d + 3 * c + 2 * p + s
    IN  IF previous_entities = <<>> THEN FALSE
        ELSE total > 36 \/ (total = 36 /\ <<d, c, p, s>> \in RoundedAboveThreshold)

\* _build_context_summary(previous_queries, previous_responses, current_entities)
build_context_summary(previous_queries, previous_responses, current_entities, set_order) ==
    LET most_recent_query == previous_queries[Len(previous_queries)]
        most_recent_response == previous_responses[Len(previous_responses)]
        response_summary ==
            IF Len(most_recent_response) > 200
              THEN SubSeq(most_recent_response, 1, 200) \o <<".",".",".">>
              ELSE most_recent_response
        prev_entities == extract_entities(most_recent_query, set_order)
        dist_list == Join(prev_entities.distribution_codes, <<","," ">>)
        dept_list == Join(current_entities.department_codes, <<","," ">>)
        head == << <<"P","R","E","V","I","O","U","S"," ","C","O","N","V","E","R","S","A","T","I","O","N"," ","C","O","N","T","E","X","T",":">>, <<"P","r","e","v","i","o","u","s"," ","q","u","e","r","y",":"," ">> \o most_recent_query >>
        resp == IF previous_responses # <<>> /\ Len(previous_responses) >= Len(previous_queries)
                  THEN << <<"P","r","e","v","i","o","u","s"," ","r","e","s","p","o","n","s","e"," ","s","u","m","m","a","r","y",":"," ">> \o response_summary >>
                  ELSE <<>>
        note == << <<>>,
                   <<"I","M","P","O","R","T","A","N","T",":"," ","T","h","e"," ","c","u","r","r","e","n","t"," ","q","u","e","r","y"," ","a","p","p","e","a","r","s"," ","t","o"," ","b","e"," ","a"," ","f","o","l","l","o","w","-","u","p"," ","o","r"," ","c","o","n","t","i","n","u","a","t","i","o","n"," ","o","f"," ","t","h","e"," ","p","r","e","v","i","o","u","s"," ","c","o","n","v","e","r","s","a","t","i","o","n",".">>,
                   <<"U","s","e"," ","t","h","e"," ","c","o","n","t","e","x","t"," ","f","r","o","m"," ","t","h","e"," ","p","r","e","v","i","o","u","s"," ","q","u","e","r","y"," ","t","o"," ","u","n","d","e","r","s","t","a","n","d"," ","w","h","a","t"," ","t","h","e"," ","s","t","u","d","e","n","t"," ","i","s"," ","r","e","f","e","r","r","i","n","g"," ","t","o",".">>,
                   <<>> >>
        combination ==
            IF prev_entities.distribution_codes # <<>> /\ current_entities.department_codes # <<>>
              THEN << <<"C","O","N","T","E","X","T"," ","C","O","M","B","I","N","A","T","I","O","N",":"," ","T","h","e"," ","s","t","u","d","e","n","t"," ","p","r","e","v","i","o","u","s","l","y"," ","a","s","k","e","d"," ","a","b","o","u","t"," ">> \o dist_list \o <<" ","r","e","q","u","i","r","e","m","e","n","t","(","s",")",".">>,
                      <<"T","h","e"," ","c","u","r","r","e","n","t"," ","q","u","e","r","y"," ","m","e","n","t","i","o","n","s"," ","d","e","p","a","r","t","m","e","n","t","(","s",")",":"," ">> \o dept_list \o <<".">>,
                      <<"I","N","T","E","R","P","R","E","T","A","T","I","O","N",":"," ","T","h","e"," ","s","t","u","d","e","n","t"," ","l","i","k","e","l","y"," ","w","a","n","t","s"," ">> \o dist_list
                          \o <<" ","r","e","q","u","i","r","e","m","e","n","t","(","s",")"," ","N","O","T"," ","i","n"," ">> \o dept_list \o <<" ","d","e","p","a","r","t","m","e","n","t","(","s",")",".">>,
                      <<>> >>
              ELSE <<>>
        remember ==
            IF prev_entities.distribution_codes # <<>>
              THEN << <<"R","e","m","e","m","b","e","r",":"," ","T","h","e"," ","s","t","u","d","e","n","t"," ","i","s"," ","a","s","k","i","n","g"," ","a","b","o","u","t"," ">> \o dist_list
                          \o <<" ","r","e","q","u","i","r","e","m","e","n","t","(","s",")"," ","f","r","o","m"," ","t","h","e"," ","p","r","e","v","i","o","u","s"," ","q","u","e","r","y",".">>,
                      <<>> >>
              ELSE <<>>
    IN  IF previous_queries = <<>> THEN <<>>
        ELSE Join(head \o resp \o note \o combination \o remember, <<"\n">>)

NotRelated == [is_related |-> FALSE, context_summary |-> None]

\* are_queries_related without the two early returns: what the rest of the function
\* computes
RelatedByContent(current_query, previous_queries, previous_responses, set_order) ==
    LET current_lower     == Lower(current_query)
        current_entities  == extract_entities(current_query, set_order)
        has_continuation  == ContainsAny(current_lower, continuation_keywords)
        references_previous == references_previous_context(current_query)
        previous_entities == [i \in DOMAIN previous_queries |->
                                 extract_entities(previous_queries[i], set_order)]
        is_related == \/ has_continuation
                      \/ references_previous
                      \/ entity_overlap_exceeds(current_entities, previous_entities)
    IN  IF is_related
          THEN [is_related |-> TRUE,
                context_summary |-> build_context_summary(previous_queries, previous_responses,
                                                          current_entities, set_order)]
          ELSE NotRelated

\* A plausible slip: the fast path for an empty history left out
are_queries_related_NoFastPath(current_query, previous_queries, previous_responses, set_order) ==
    RelatedByContent(current_query, previous_queries, previous_responses, set_order)

\* are_queries_related(current_query, previous_queries, previous_responses):
\* (is_related, context_summary)
are_queries_related(current_query, previous_queries, previous_responses, set_order) ==
    IF previous_queries = <<>> THEN NotRelated
    ELSE RelatedByContent(current_query, previous_queries, previous_responses, set_order)

\* A plausible slip: the context put before the query whenever the queries are related
enhance_query_with_context_AnyContext(current_query, previous_queries, previous_responses, set_order) ==
    LET related == are_queries_related(current_query, previous_queries, previous_responses, set_order)
    IN  IF related.is_related
          THEN (IF related.context_summary = None THEN <<>> ELSE related.context_summary)
                  \o <<"\n", "\n">> \o <<"C","U","R","R","E","N","T"," ","Q","U","E","R","Y",":"," ">> \o current_query
          ELSE current_query

\* enhance_query_with_context(current_query, previous_queries, previous_responses)
enhance_query_with_context(current_query, previous_queries, previous_responses, set_order) ==
    LET related == are_queries_related(current_query, previous_queries, previous_responses, set_order)
    IN  IF related.is_related /\ related.context_summary # None /\ related.context_summary # <<>>
          THEN related.context_summary \o <<"\n", "\n">> \o <<"C","U","R","R","E","N","T"," ","Q","U","E","R","Y",":"," ">> \o current_query
          ELSE current_query

\* Current queries: with and without continuation keywords, pronouns and entities, short
\* and longer than five words
ContextQueries ==
    { <<"i","n","t","r","o"," ","c","o","u","r","s","e">>, <<"w","h","a","t"," ","a","b","o","u","t"," ","t","h","o","s","e"," ","i","n"," ","C","O","S">>, <<"n","o","t"," ","i","n"," ","A","A","S">>, <<"i","s"," ","i","t"," ","h","a","r","d">>,
      <<"H","A"," ","r","e","q","u","i","r","e","m","e","n","t">>, <<"h","i","s","t","o","r","y"," ","c","l","a","s","s">>, <<"C","O","S"," ","2","2","6">>, <<>>,
      <<"w","h","i","c","h"," ","o","f"," ","t","h","o","s","e"," ","h","a","s"," ","a"," ","l","a","b"," ","o","n"," ","f","r","i","d","a","y">>, <<"a"," ","c","l","a","s","s"," ","o","n"," ","h","i","s","t","o","r","i","c","a","l"," ","a","n","a","l","y","s","i","s">> }

PreviousQueries == { <<"C","D"," ","r","e","q","u","i","r","e","m","e","n","t">>, <<"C","O","S"," ","2","2","6">>, <<"h","i","s","t","o","r","y"," ","c","l","a","s","s">> }

\* A response of more than 200 characters
LongResponse == [i \in 1..201 |-> "a"]

PreviousResponses == { <<"T","r","y"," ","A","A","S"," ","2","2","5",".">>, LongResponse }

\* The history handed to the functions: no history, one exchange, a query without a
\* response, two exchanges, and responses without a query
Histories ==
    { [previous_queries |-> <<>>, previous_responses |-> <<>>] }
    \cup { [previous_queries |-> <<>>, previous_responses |-> <<r>>] : r \in PreviousResponses }
    \cup { [previous_queries |-> <<q>>, previous_responses |-> <<>>] : q \in PreviousQueries }
    \cup { [previous_queries |-> <<q>>, previous_responses |-> <<r>>] :
              q \in PreviousQueries, r \in PreviousResponses }
    \cup { [previous_queries |-> <<q1, q2>>, previous_responses |-> <<<<"T","r","y"," ","A","A","S"," ","2","2","5",".">>, r>>] :
              q1 \in PreviousQueries, q2 \in PreviousQueries, r \in PreviousResponses }

SetOrders == {"ascending", "descending"}

NoContextCall ==
    [current_query |-> <<>>, previous_queries |-> <<>>, previous_responses |-> <<>>,
     set_order |-> "ascending", done |-> FALSE, related |-> NotRelated, enhanced |-> <<>>]

ContextCalls ==
    { [NoContextCall EXCEPT !.current_query = q, !.previous_queries = h.previous_queries,
                            !.previous_responses = h.previous_responses, !.set_order = o] :
        q \in ContextQueries, h \in Histories, o \in SetOrders }

\* enhance_query_with_context returns; related is what its call of are_queries_related
\* answered
EnhanceQuery ==
    /\ ~context_call.done
    /\ context_call' = [context_call EXCEPT
          !.done = TRUE,
          !.related = are_queries_related(context_call.current_query,
                         context_call.previous_queries, context_call.previous_responses,
                         context_call.set_order),
          !.enhanced = enhance_query_with_context(context_call.current_query,
                         context_call.previous_queries, context_call.previous_responses,
                         context_call.set_order)]

InitContextIdle == context_call = NoContextCall

InitContext == context_call \in ContextCalls

(***************************************************************************)
(* The lazily built caches of course_recommender.py: load_course_details,  *)
(* load_distribution_mapping and load_major_requirements, called by        *)
(* concurrent requests.  The three functions have the same shape; they     *)
(* differ in what a failed read gives (an empty mapping or the exception). *)
(***************************************************************************)
VARIABLES
    loader,          \* which of the three functions the calls are calls of
    data_file,       \* the JSON file: [state, content]; nothing writes it
    cache,           \* the module-level cache: [set, content, parsed_by]
    load_pc,         \* per call: "idle" | "check" | "return_cached" | "read" | "assign"
                     \*           | "return_loaded" | "done"
    found_cached,    \* per call: what `if cache is not None` found
    parsed,          \* per call: the object json.load gave the call
    file_reads,      \* per call: whether the call opened the file
    load_result      \* per call: [outcome, content, parsed_by]

cacheVars == <<loader, data_file, cache, load_pc, found_cached, parsed, file_reads, load_result>>

Loaders == {"load_course_details", "load_distribution_mapping", "load_major_requirements"}

\* The calls: requests handled by concurrent threads
Calls == {"t1", "t2", "t3"}

FileStates == {"readable", "missing", "malformed"}

FileContents == {"spring26", "fall26"}

EmptyCache == [set |-> FALSE, content |-> "", parsed_by |-> ""]

NoObject == [content |-> "", parsed_by |-> ""]

NoLoadResult == [outcome |-> "none", content |-> "", parsed_by |-> ""]

\* A plausible slip: the file is read again although the cache is populated
AfterCheck_AlwaysReload(populated) == "read"

\* `if _cache is not None: return _cache`
AfterCheck(populated) == IF populated THEN "return_cached" ELSE "read"

\* What a call gives when open() or json.load raised: load_distribution_mapping
\* returns {}, the other two re-raise
OnLoadError(fn, file_state) ==
    IF fn = "load_distribution_mapping"
      THEN [outcome |-> "returned", content |-> "{}", parsed_by |-> ""]
      ELSE [outcome |-> IF file_state = "missing" THEN "FileNotFoundError" ELSE "JSONDecodeError",
            content |-> "", parsed_by |-> ""]

\* A request calls the function
EnterLoad(t) ==
    /\ load_pc[t] = "idle"
    /\ load_pc' = [load_pc EXCEPT ![t] = "check"]
    /\ UNCHANGED <<loader, data_file, cache, found_cached, parsed, file_reads, load_result>>

\* `if _cache is not None`
CheckCache(t) ==
    /\ load_pc[t] = "check"
    /\ found_cached' = [found_cached EXCEPT ![t] = cache.set]
    /\ load_pc' = [load_pc EXCEPT ![t] = AfterCheck(cache.set)]
    /\ UNCHANGED <<loader, data_file, cache, parsed, file_reads, load_result>>

\* `return _cache` of the fast path: the global is read again
ReturnCached(t) ==
    /\ load_pc[t] = "return_cached"
    /\ load_result' = [load_result EXCEPT ![t] =
          [outcome |-> "returned", content |-> cache.content, parsed_by |-> cache.parsed_by]]
    /\ load_pc' = [load_pc EXCEPT ![t] = "done"]
    /\ UNCHANGED <<loader, data_file, cache, found_cached, parsed, file_reads>>

\* `with open(...) as f: json.load(f)`: a new object with the content of the file, or
\* the exception and what the except clauses make of it
ReadFile(t) ==
    /\ load_pc[t] = "read"
    /\ file_reads' = [file_reads EXCEPT ![t] = TRUE]
    /\ IF data_file.state = "readable"
         THEN /\ parsed' = [parsed EXCEPT ![t] = [content |-> data_file.content, parsed_by |-> t]]
              /\ load_pc' = [load_pc EXCEPT ![t] = "assign"]
              /\ UNCHANGED load_result
         ELSE /\ load_result' = [load_result EXCEPT ![t] = OnLoadError(loader, data_file.state)]
              /\ load_pc' = [load_pc EXCEPT ![t] = "done"]
              /\ UNCHANGED parsed
    /\ UNCHANGED <<loader, data_file, cache, found_cached>>

\* `_cache = json.load(f)`: the assignment to the global
AssignCache(t) ==
    /\ load_pc[t] = "assign"
    /\ cache' = [set |-> TRUE, content |-> parsed[t].content, parsed_by |-> parsed[t].parsed_by]
    /\ load_pc' = [load_pc EXCEPT ![t] = "return_loaded"]
    /\ UNCHANGED <<loader, data_file, found_cached, parsed, file_reads, load_result>>

\* `return _cache` after the load: the global is read again
ReturnLoaded(t) ==
    /\ load_pc[t] = "return_loaded"
    /\ load_result' = [load_result EXCEPT ![t] =
          [outcome |-> "returned", content |-> cache.content, parsed_by |-> cache.parsed_by]]
    /\ load_pc' = [load_pc EXCEPT ![t] = "done"]
    /\ UNCHANGED <<loader, data_file, cache, found_cached, parsed, file_reads>>

InitCacheIdle ==
    /\ loader = "load_course_details"
    /\ data_file = [state |-> "readable", content |-> "spring26"]
    /\ cache = EmptyCache
    /\ load_pc = [t \in Calls |-> "idle"]
    /\ found_cached = [t \in Calls |-> FALSE]
    /\ parsed = [t \in Calls |-> NoObject]
    /\ file_reads = [t \in Calls |-> FALSE]
    /\ load_result = [t \in Calls |-> NoLoadResult]

\* The process has just started: the cache is empty and no call has been made
InitCache ==
    /\ loader \in Loaders
    /\ data_file \in [state : FileStates, content : FileContents]
    /\ cache = EmptyCache
    /\ load_pc = [t \in Calls |-> "idle"]
    /\ found_cached = [t \in Calls |-> FALSE]
    /\ parsed = [t \in Calls |-> NoObject]
    /\ file_reads = [t \in Calls |-> FALSE]
    /\ load_result = [t \in Calls |-> NoLoadResult]

(***************************************************************************)
(* match_course_code (course_recommender.py): the lookup of a course code  *)
(* in the term of the course details file.  A subject object is            *)
(* [code, courses]; a course is [catalog_number, guid, crosslistings],     *)
(* guid standing for the record; a crosslisting is                         *)
(* [subject, catalog_number].                                              *)
(***************************************************************************)
VARIABLE match_call   \* [subjects, course_code, step, result]

matchVars == <<match_call>>

NoCourse == [catalog_number |-> None, guid |-> "None", crosslistings |-> <<>>]

\* Index of the first digit of the text, 0 when it has none
FirstDigit(text) ==
    IF \E i \in DOMAIN text : IsDigit(text[i])
      THEN CHOOSE i \in DOMAIN text : IsDigit(text[i]) /\ \A j \in 1..(i - 1) : ~IsDigit(text[j])
      ELSE 0

\* The first element of list that satisfies Test, otherwise the value of default
FirstIn(list, Test(_), otherwise) ==
    IF \E i \in DOMAIN list : Test(list[i])
      THEN list[CHOOSE i \in DOMAIN list : Test(list[i]) /\ \A j \in 1..(i - 1) : ~Test(list[j])]
      ELSE otherwise

\* The two loops over the courses of one subject object whose code is the subject
InSubject(subject_obj, subject, catalog_number) ==
    LET Primary(course) == course.catalog_number = catalog_number
        Crosslisted(course) ==
            \E k \in DOMAIN course.crosslistings :
                /\ Upper(course.crosslistings[k].subject) = subject
                /\ course.crosslistings[k].catalog_number = catalog_number
    IN  IF \E i \in DOMAIN subject_obj.courses : Primary(subject_obj.courses[i])
          THEN FirstIn(subject_obj.courses, Primary, NoCourse)
          ELSE FirstIn(subject_obj.courses, Crosslisted, NoCourse)

\* match_course_code: NoCourse stands for None
match_course_code(course_code, subjects) ==
    LET normalized_code == Upper(SelectSeq(course_code, LAMBDA c : c # " "))
        i == FirstDigit(normalized_code)
        subject == Slice(normalized_code, 1, i - 1)
        catalog_number == Slice(normalized_code, i, Len(normalized_code))
        Found(subject_obj) ==
            /\ Upper(subject_obj.code) = subject
            /\ InSubject(subject_obj, subject, catalog_number) # NoCourse
    IN  IF i = 0 \/ subject = <<>> THEN NoCourse
        ELSE IF \E s \in DOMAIN subjects : Found(subjects[s])
          THEN InSubject(FirstIn(subjects, Found, [code |-> <<>>, courses |-> <<>>]), subject, catalog_number)
          ELSE NoCourse

\* The records of the model.  Algorithms and Data Structures is COS 226 and ECE 206;
\* the file may carry it once, under COS, or once under each of its subjects.
Algorithms_COS ==
    [catalog_number |-> <<"2","2","6">>, guid |-> "algorithms",
     crosslistings |-> << [subject |-> <<"E","C","E">>, catalog_number |-> <<"2","0","6">>] >>]

Algorithms_ECE ==
    [catalog_number |-> <<"2","0","6">>, guid |-> "algorithms",
     crosslistings |-> << [subject |-> <<"C","O","S">>, catalog_number |-> <<"2","2","6">>] >>]

Intro_COS == [catalog_number |-> <<"1","2","6">>, guid |-> "intro", crosslistings |-> <<>>]

Circuits_ECE == [catalog_number |-> <<"2","0","3">>, guid |-> "circuits", crosslistings |-> <<>>]

\* A record that names its own listing among its crosslistings
Networks_COS ==
    [catalog_number |-> <<"4","6","1">>, guid |-> "networks",
     crosslistings |-> << [subject |-> <<"C","O","S">>, catalog_number |-> <<"5","6","1">>] >>]

CourseLists_COS ==
    { <<Intro_COS>>, <<Intro_COS, Algorithms_COS>>, <<Algorithms_COS, Networks_COS>>, <<Networks_COS>> }

CourseLists_ECE ==
    { <<>>, <<Circuits_ECE>>, <<Algorithms_ECE>>, <<Circuits_ECE, Algorithms_ECE>> }

\* The subjects of the term: COS, then ECE when the file has that subject
SubjectLists ==
    { << [code |-> <<"C","O","S">>, courses |-> cos] >> : cos \in CourseLists_COS }
    \cup { << [code |-> <<"C","O","S">>, courses |-> cos], [code |-> <<"E","C","E">>, courses |-> ece] >> :
              cos \in CourseLists_COS, ece \in CourseLists_ECE }
    \cup { << [code |-> <<"E","C","E">>, courses |-> ece], [code |-> <<"c","o","s">>, courses |-> cos] >> :
              cos \in CourseLists_COS, ece \in CourseLists_ECE \ {<<>>} }

MatchCodes ==
    { <<"C","O","S"," ","2","2","6">>, <<"c","o","s","2","2","6">>, <<"E","C","E"," ","2","0","6">>, <<"E","C","E","2","0","6">>, <<"C","O","S"," ","1","2","6">>, <<"C","O","S"," ","5","6","1">>, <<"C","O","S"," ","4","6","1">>,
      <<"E","C","E"," ","2","0","3">>, <<"M","A","T"," ","2","0","1">>, <<"C","O","S">>, <<"2","2","6">> }

NoMatchCall == [subjects |-> <<>>, course_code |-> <<>>, step |-> 0, result |-> NoCourse]

MatchCalls == [subjects : SubjectLists, course_code : MatchCodes, step : {0}, result : {NoCourse}]

\* One call of match_course_code
Match ==
    /\ match_call.step = 0
    /\ match_call' = [match_call EXCEPT !.step = 1,
                                        !.result = match_course_code(match_call.course_code, match_call.subjects)]

InitMatchIdle == match_call = NoMatchCall

InitMatch == match_call \in MatchCalls

(***************************************************************************)
(* get_student_data (course_recommender.py) and the part of the            *)
(* recommendation route that uses it.  A stored user document is           *)
(* [past_courses, concentration, grade] with past_courses                  *)
(* [type, keys]: the field may be absent or hold something else than a     *)
(* dict.                                                                   *)
(***************************************************************************)
VARIABLE student_call   \* [user_id, db, catalog_codes, step, profile, status]

studentVars == <<student_call>>

\* The profile of get_student_data's `if not db_user` and `except` branches
DefaultProfile == [past_courses |-> {}, concentration |-> None, grade |-> None]

NoProfile == [past_courses |-> {}, concentration |-> <<>>, grade |-> <<>>]

\* ObjectId(user_id) accepts 24 hexadecimal characters; the ids of the model are
\* abbreviated to their first characters
ValidObjectIds == { <<"6","5","a","1">>, <<"6","5","a","2">>, <<"6","5","a","3">> }

\* session.get("userId"): absent, not an ObjectId, or an ObjectId
UserIds == { <<>>, <<"m","e">> } \cup ValidObjectIds

\* get_student_data: ObjectId() or find_one raising, and find_one giving None, all
\* give the default profile
get_student_data(user_id, db) ==
    IF user_id \notin ValidObjectIds \/ ~db.up THEN DefaultProfile
    ELSE IF user_id \notin DOMAIN db.users THEN DefaultProfile
    ELSE LET db_user == db.users[user_id]
         IN  [past_courses |-> IF db_user.past_courses.type = "dict" THEN db_user.past_courses.keys ELSE {},
              concentration |-> db_user.concentration,
              grade |-> db_user.grade]

\* The users collection in the states of the model
UserCollections ==
    { <<>>,
      [id \in { <<"6","5","a","1">> } |-> [past_courses |-> [type |-> "dict", keys |-> {}],
                                concentration |-> <<"C","O","S">>, grade |-> <<"F","r","e","s","h","m","a","n">>]],
      [id \in { <<"6","5","a","1">> } |-> [past_courses |-> [type |-> "absent", keys |-> {}],
                                concentration |-> None, grade |-> None]],
      [id \in { <<"6","5","a","1">>, <<"6","5","a","2">> } |->
          IF id = <<"6","5","a","1">>
            THEN [past_courses |-> [type |-> "dict", keys |-> { <<"C","O","S"," ","1","2","6">> }],
                  concentration |-> <<"M","A","T">>, grade |-> <<"J","u","n","i","o","r">>]
            ELSE [past_courses |-> [type |-> "list", keys |-> { <<"C","O","S"," ","2","2","6">> }],
                  concentration |-> <<"E","C","O">>, grade |-> None]] }

Databases == [up : BOOLEAN, users : UserCollections]

NoStudentCall ==
    [user_id |-> <<>>, db |-> [up |-> TRUE, users |-> <<>>], catalog_codes |-> <<>>, step |-> "idle",
     profile |-> NoProfile, status |-> "none"]

StudentCalls ==
    [user_id : UserIds, db : Databases, catalog_codes : {<<>>, RecoCatalog}, step : {"idle"},
     profile : {NoProfile}, status : {"none"}]

\* The route from the session check to get_student_data
FetchStudent ==
    /\ student_call.step = "idle"
    /\ IF student_call.user_id = <<>>
         THEN student_call' = [student_call EXCEPT !.step = "done", !.status = "401"]
         ELSE student_call' = [student_call EXCEPT
                  !.step = "fetched",
                  !.profile = get_student_data(student_call.user_id, student_call.db)]

\* The route from get_student_data to the prompt: 400 without available courses,
\* otherwise it goes on to the recommendation
CheckAvailableCourses ==
    /\ student_call.step = "fetched"
    /\ LET available_courses ==
               get_available_courses_for_prompt(student_call.profile.past_courses,
                                                student_call.profile.concentration,
                                                student_call.catalog_codes)
       IN  student_call' = [student_call EXCEPT
               !.step = "done",
               !.status = IF available_courses = <<>> THEN "400" ELSE "recommends"]

InitStudentIdle == student_call = NoStudentCall

InitStudent == student_call \in StudentCalls

(***************************************************************************)
(* The subject/generic path of the recommendation candidates:              *)
(* get_available_courses_for_prompt and get_vector_based_recommendations   *)
(* called with the same student.                                           *)
(***************************************************************************)
VARIABLE candidates_call   \* [student_data, user_query, env, done, available_courses, candidates]

candidateVars == <<candidates_call>>

\* Students of this part: without past courses and with a concentration that has
\* courses in the catalog (in either case of letters) or has none, and with past courses
CandidateStudents ==
    { [past_courses |-> {}, concentration |-> <<"C","O","S">>, grade |-> <<"F","r","e","s","h","m","a","n">>],
      [past_courses |-> {}, concentration |-> <<"c","o","s">>, grade |-> None],
      [past_courses |-> {}, concentration |-> <<"M","A","T">>, grade |-> <<"J","u","n","i","o","r">>],
      [past_courses |-> {}, concentration |-> <<"E","C","O">>, grade |-> <<"J","u","n","i","o","r">>],
      [past_courses |-> {}, concentration |-> None, grade |-> <<"s","o","p","h","o","m","o","r","e">>],
      [past_courses |-> { <<"C","O","S"," ","1","2","6">> }, concentration |-> <<"C","O","S">>, grade |-> None] }

CandidateQueries == { None, <<"i","n","t","r","o"," ","c","o","u","r","s","e">>, <<"i","n","t","r","o"," ","s","t","a","t","i","s","t","i","c","s">>, <<"s","o","m","e","t","h","i","n","g"," ","l","i","k","e"," ","C","O","S"," ","2","2","6">> }

NoCandidates == [raised |-> FALSE, embedding_failed |-> FALSE, codes |-> <<>>]

NoCandidatesCall ==
    [student_data |-> [past_courses |-> {}, concentration |-> None, grade |-> None],
     user_query |-> None,
     env |-> [embeddings |-> <<>>, courses_with_text |-> <<>>, embedding_ok |-> TRUE,
              catalog_codes |-> RecoCatalog],
     done |-> FALSE, available_courses |-> <<>>, candidates |-> NoCandidates]

CandidateCalls ==
    [student_data : CandidateStudents, user_query : CandidateQueries, env : SearchEnvs, done : {FALSE},
     available_courses : {<<>>}, candidates : {NoCandidates}]

\* get_available_courses_for_prompt and get_vector_based_recommendations for one student
ProduceCandidates ==
    /\ ~candidates_call.done
    /\ candidates_call' = [candidates_call EXCEPT
          !.done = TRUE,
          !.available_courses =
              get_available_courses_for_prompt(candidates_call.student_data.past_courses,
                                               candidates_call.student_data.concentration,
                                               candidates_call.env.catalog_codes),
          !.candidates =
              get_vector_based_recommendations(candidates_call.student_data, candidates_call.user_query,
                                               candidates_call.env, 50, 20)]

InitCandidatesIdle == candidates_call = NoCandidatesCall

InitCandidates == candidates_call \in CandidateCalls

(***************************************************************************)
(* build_chat_prompt (chat_prompts.py) from the classification of the      *)
(* query to the context message.  The context message is kept as what its  *)
(* lines say: the courses listed by each section, the instruction block    *)
(* and the closing line.  The file of course details is given by the codes *)
(* of its courses, subject by subject.                                     *)
(***************************************************************************)
VARIABLE prompt_call   \* [classification, user_query, student_data, env, index, done, prompt]

promptVars == <<prompt_call>>

requirement_type_mapping ==
    << <<<<"C","D">>, <<"C","D"," ","(","C","u","l","t","u","r","e"," ","a","n","d"," ","D","i","f","f","e","r","e","n","c","e",")">>>>,
       <<<<"E","C">>, <<"E","C"," ","(","E","p","i","s","t","e","m","o","l","o","g","y"," ","a","n","d"," ","C","o","g","n","i","t","i","o","n",")">>>>,
       <<<<"E","M">>, <<"E","M"," ","(","E","t","h","i","c","a","l"," ","T","h","o","u","g","h","t"," ","a","n","d"," ","M","o","r","a","l"," ","V","a","l","u","e","s",")">>>>,
       <<<<"H","A">>, <<"H","A"," ","(","H","i","s","t","o","r","i","c","a","l"," ","A","n","a","l","y","s","i","s",")">>>>,
       <<<<"L","A">>, <<"L","A"," ","(","L","i","t","e","r","a","t","u","r","e"," ","a","n","d"," ","t","h","e"," ","A","r","t","s",")">>>>,
       <<<<"Q","C","R">>, <<"Q","C","R"," ","(","Q","u","a","n","t","i","t","a","t","i","v","e"," ","a","n","d"," ","C","o","m","p","u","t","a","t","i","o","n","a","l"," ","R","e","a","s","o","n","i","n","g",")">>>>,
       <<<<"S","E","L">>, <<"S","E","L"," ","(","S","c","i","e","n","c","e"," ","a","n","d"," ","E","n","g","i","n","e","e","r","i","n","g"," ","w","i","t","h"," ","L","a","b","o","r","a","t","o","r","y",")">>>>,
       <<<<"S","E","N">>, <<"S","E","N"," ","(","S","c","i","e","n","c","e"," ","a","n","d"," ","E","n","g","i","n","e","e","r","i","n","g"," ","N","o"," ","L","a","b",")">>>>,
       <<<<"S","A">>, <<"S","A"," ","(","S","o","c","i","a","l"," ","A","n","a","l","y","s","i","s",")">>>> >>

dept_keywords ==
    << <<<<"c","o","m","p","u","t","e","r"," ","s","c","i","e","n","c","e">>, <<<<"C","O","S">>>> >>, <<<<"c","s">>, <<<<"C","O","S">>>> >>, <<<<"p","r","o","g","r","a","m","m","i","n","g">>, <<<<"C","O","S">>>> >>,
       <<<<"e","c","o","n","o","m","i","c","s">>, <<<<"E","C","O">>>> >>, <<<<"h","i","s","t","o","r","y">>, <<<<"H","I","S">>>> >>, <<<<"p","h","i","l","o","s","o","p","h","y">>, <<<<"P","H","I">>>> >>,
       <<<<"m","a","t","h">>, <<<<"M","A","T">>>> >>, <<<<"m","a","t","h","e","m","a","t","i","c","s">>, <<<<"M","A","T">>>> >>, <<<<"p","h","y","s","i","c","s">>, <<<<"P","H","Y">>>> >>,
       <<<<"c","h","e","m","i","s","t","r","y">>, <<<<"C","H","M">>>> >>, <<<<"b","i","o","l","o","g","y">>, <<<<"M","O","L">>, <<"E","E","B">>>> >>, <<<<"e","n","g","l","i","s","h">>, <<<<"E","N","G">>>> >>,
       <<<<"l","i","t","e","r","a","t","u","r","e">>, <<<<"E","N","G">>>> >>, <<<<"p","o","l","i","t","i","c","s">>, <<<<"P","O","L">>>> >>, <<<<"p","o","l","i","t","i","c","a","l"," ","s","c","i","e","n","c","e">>, <<<<"P","O","L">>>> >>,
       <<<<"p","s","y","c","h","o","l","o","g","y">>, <<<<"P","S","Y">>>> >>, <<<<"s","o","c","i","o","l","o","g","y">>, <<<<"S","O","C">>>> >>, <<<<"a","r","t">>, <<<<"A","R","T">>, <<"V","I","S">>>> >>,
       <<<<"m","u","s","i","c">>, <<<<"M","U","S">>>> >>, <<<<"t","h","e","a","t","e","r">>, <<<<"T","H","R">>>> >>, <<<<"e","c","e">>, <<<<"E","C","E">>>> >>,
       <<<<"e","l","e","c","t","r","i","c","a","l">>, <<<<"E","C","E">>>> >>, <<<<"e","l","e","c","t","r","i","c","a","l"," ","e","n","g","i","n","e","e","r","i","n","g">>, <<<<"E","C","E">>>> >>,
       <<<<"e","l","e","c","t","r","i","c","a","l"," ","a","n","d"," ","c","o","m","p","u","t","e","r"," ","e","n","g","i","n","e","e","r","i","n","g">>, <<<<"E","C","E">>>> >> >>

generic_keywords == << <<"c","o","u","r","s","e">>, <<"c","l","a","s","s">>, <<"r","e","c","o","m","m","e","n","d">>, <<"t","a","k","e">>, <<"n","e","e","d">> >>

\* A JSON value is truthy: a non-empty string
TruthyValue(value) == value.t = "str" /\ value.v # <<>>

\* re.match(r'^([A-Z]{2,4})\s*\(', text): the group, <<>> when there is no match
RequirementCode(text) ==
    LET Matches(n) ==
            /\ n <= Len(text)
            /\ \A i \in 1..n : IsUpperLetter(text[i])
            /\ \E p \in (n + 1)..Len(text) :
                  /\ text[p] = "("
                  /\ \A i \in (n + 1)..(p - 1) : IsSpace(text[i])
    IN  IF \E n \in 2..4 : Matches(n)
          THEN SubSeq(text, 1, CHOOSE n \in 2..4 : Matches(n))
          ELSE <<>>

\* The display string of a requirement code that requirement_type_mapping knows
DisplayType(requirement_type) ==
    IF TruthyValue(requirement_type)
       /\ \E k \in DOMAIN requirement_type_mapping : requirement_type_mapping[k][1] = requirement_type.v
      THEN JStr(requirement_type_mapping[CHOOSE k \in DOMAIN requirement_type_mapping :
                                            requirement_type_mapping[k][1] = requirement_type.v][2])
      ELSE requirement_type

\* relevant_departments, as the set the code makes of it
RelevantDepartments(classification, user_query_, major, is_generic_query) ==
    IF classification.intent = <<"r","e","q","u","i","r","e","m","e","n","t">> THEN {}
    ELSE (IF TruthyValue(classification.detected_dept_code)
            THEN {classification.detected_dept_code.v} ELSE {})
         \cup UNION { Range(dept_keywords[k][2]) :
                        k \in { j \in DOMAIN dept_keywords : Contains(Lower(user_query_), dept_keywords[j][1]) } }
         \cup (IF Truthy(major) /\ ~is_generic_query THEN {Upper(major)} ELSE {})

\* is_generic_query
IsGenericQuery(classification, user_query_) ==
    /\ Len(SplitWords(user_query_)) <= 3
    /\ classification.intent \notin { <<"s","i","m","i","l","a","r","i","t","y">>, <<"r","e","q","u","i","r","e","m","e","n","t">>, <<"s","u","b","j","e","c","t">> }
    /\ ~TruthyValue(classification.detected_dept_code)
    /\ ~ContainsAny(Lower(user_query_), generic_keywords)

\* The courses that a loop lists: those whose details extract_course_details finds
Listed(course_codes_, catalog_codes) ==
    SelectSeq(course_codes_, LAMBDA course_code : extract_course_details(course_code, catalog_codes) # None)

\* course_details after a loop that assigned it for every course of course_codes_:
\* "catalog" while it is the loaded file, "details" for the dict of a course, "None"
DetailsAfter(course_details, course_codes_, catalog_codes) ==
    IF course_codes_ = <<>> THEN course_details
    ELSE IF extract_course_details(course_codes_[Len(course_codes_)], catalog_codes) = None THEN "None"
    ELSE "details"

\* The AVAILABLE COURSES section on the loaded file: the courses of the relevant
\* departments, then up to three courses of each other department, thirty at most,
\* when fewer than twenty were listed or no department is relevant
AvailableCourses(relevant_departments, catalog_codes) ==
    LET SubjectOf(course_code) == Upper(SplitWords(course_code)[1])
        relevant == SelectSeq(catalog_codes, LAMBDA course_code : SubjectOf(course_code) \in relevant_departments)
        PlaceInSubject(i) == Cardinality({ j \in 1..i : SubjectOf(catalog_codes[j]) = SubjectOf(catalog_codes[i]) })
        other_places == { i \in DOMAIN catalog_codes :
                            /\ SubjectOf(catalog_codes[i]) \notin relevant_departments
                            /\ PlaceInSubject(i) <= 3 }
        others == SelectSeq([i \in DOMAIN catalog_codes |-> IF i \in other_places THEN catalog_codes[i] ELSE <<>>],
                            LAMBDA course_code : course_code # <<>>)
    IN  IF Len(relevant) < 20 \/ relevant_departments = {}
          THEN relevant \o Take(others, 30)
          ELSE relevant

NoPrompt ==
    [raised |-> "none", requirement_listed |-> <<>>, similarity_listed |-> <<>>, available_listed |-> <<>>,
     instruction_block |-> "none", dist_code |-> <<>>, closing |-> "none"]

\* build_chat_prompt after classify_query_with_llm.  index is the distribution index
\* that get_courses_by_distribution reads.
build_chat_prompt(classification, user_query_, student_data_, env, index) ==
    LET similarity_intent == classification.intent = <<"s","i","m","i","l","a","r","i","t","y">>
        similarity_course_code == classification.similarity_course_code
        requirement_intent == classification.intent = <<"r","e","q","u","i","r","e","m","e","n","t">>
        requirement_type == DisplayType(classification.requirement_type)
        is_generic_query == IsGenericQuery(classification, user_query_)
        relevant_departments ==
            RelevantDepartments(classification, user_query_, student_data_.concentration, is_generic_query)
        \* the requirement section
        requirement_code == IF TruthyValue(requirement_type) THEN RequirementCode(requirement_type.v) ELSE <<>>
        matching_courses ==
            IF requirement_intent /\ TruthyValue(requirement_type) /\ requirement_code # <<>>
              THEN get_courses_by_distribution(index, lookup_mapping(Upper(requirement_code)),
                                               student_data_.past_courses, TRUE)
              ELSE <<>>
        after_requirement == DetailsAfter("catalog", Take(matching_courses, 30), env.catalog_codes)
        \* the similarity section
        search == IF similarity_intent /\ TruthyValue(similarity_course_code)
                    THEN vector_search_courses(env.embeddings, env.courses_with_text, env.embedding_ok,
                                               NoList, 20)
                    ELSE [raised |-> FALSE, results |-> <<>>]
        similar == IF search.raised THEN <<>>
                   ELSE SelectSeq(CodesOf(Take(search.results, 15)),
                                  LAMBDA course_code : Upper(course_code) # Upper(similarity_course_code.v))
        course_details == DetailsAfter(after_requirement, similar, env.catalog_codes)
        \* the AVAILABLE COURSES section
        available_section == ~requirement_intent /\ ~is_generic_query
        listing == [NoPrompt EXCEPT
                       !.requirement_listed = Listed(Take(matching_courses, 30), env.catalog_codes),
                       !.similarity_listed = Listed(similar, env.catalog_codes),
                       !.available_listed =
                           IF available_section /\ course_details = "catalog" /\ env.catalog_codes # <<>>
                             THEN AvailableCourses(relevant_departments, env.catalog_codes)
                             ELSE <<>>]
        closing == IF is_generic_query THEN "greeting" ELSE "recommend"
    IN  IF available_section /\ course_details = "None"
          THEN [NoPrompt EXCEPT !.raised = "TypeError"]
        ELSE IF similarity_intent /\ TruthyValue(similarity_course_code)
          THEN [listing EXCEPT !.instruction_block = "similarity", !.closing = closing]
        ELSE IF requirement_intent
          THEN IF requirement_type.t # "str"
                 THEN [NoPrompt EXCEPT !.raised = "TypeError"]
                 ELSE [listing EXCEPT
                          !.instruction_block = "requirement",
                          !.dist_code = IF RequirementCode(requirement_type.v) # <<>>
                                          THEN Upper(RequirementCode(requirement_type.v))
                                          ELSE <<"R","E","Q","U","I","R","E","M","E","N","T">>,
                          !.closing = closing]
        ELSE [listing EXCEPT !.instruction_block = "subject", !.closing = closing]

\* The replies of the classifier in this part: every intent, with and without the
\* course code, the requirement code (absent, empty, known, legacy, unknown) and the
\* department
PromptContents ==
    [json : {"object"},
     intent : { JStr(<<"s","i","m","i","l","a","r","i","t","y">>), JStr(<<"r","e","q","u","i","r","e","m","e","n","t">>), JStr(<<"s","u","b","j","e","c","t">>), JStr(<<"g","e","n","e","r","a","l">>) },
     similarity_course_code : { JNull, JStr(<<"C","O","S"," ","2","2","6">>) },
     requirement_type : { JAbsent, JStr(<<>>), JStr(<<"S","E","L">>), JStr(<<"s","t","l">>), JStr(<<"x","y","z">>) },
     detected_dept_code : { JNull, JStr(<<"C","O","S">>) }]

\* What classify_query_with_llm returns for them, and its fallback
PromptClassifications ==
    { ClassifyReply(content).value : content \in PromptContents } \cup {FallbackClassification}

PromptQueries == { <<"h","i">>, <<"c","o","u","r","s","e","s"," ","s","i","m","i","l","a","r"," ","t","o"," ","C","O","S"," ","2","2","6">>, <<"a"," ","l","a","b"," ","s","c","i","e","n","c","e">>, <<"m","a","t","h"," ","c","l","a","s","s">> }

PromptStudents ==
    { [past_courses |-> {}, concentration |-> None, grade |-> None],
      [past_courses |-> { <<"C","O","S"," ","1","2","6">> }, concentration |-> <<"c","o","s">>, grade |-> <<"J","u","n","i","o","r">>] }

\* The course details file holds every course of the store, or its first two only
PromptEnvs ==
    [embeddings : {<<>>, Store}, courses_with_text : {<<>>}, embedding_ok : BOOLEAN,
     catalog_codes : {RecoCatalog, Take(RecoCatalog, 2)}]

\* distribution_to_courses.json
PromptIndex ==
    [code \in { <<"S","E","L">>, <<"Q","C","R">> } |->
        IF code = <<"S","E","L">> THEN << <<"C","O","S"," ","1","2","6">>, <<"C","O","S"," ","2","2","6">>, <<"M","A","T"," ","2","0","1">> >> ELSE << <<"M","A","T"," ","2","0","1">> >>]

NoPromptCall ==
    [classification |-> FallbackClassification, user_query |-> <<>>,
     student_data |-> [past_courses |-> {}, concentration |-> None, grade |-> None],
     env |-> [embeddings |-> <<>>, courses_with_text |-> <<>>, embedding_ok |-> TRUE,
              catalog_codes |-> RecoCatalog],
     index |-> PromptIndex, done |-> FALSE, prompt |-> NoPrompt]

PromptCalls ==
    [classification : PromptClassifications, user_query : PromptQueries, student_data : PromptStudents,
     env : PromptEnvs, index : {PromptIndex}, done : {FALSE}, prompt : {NoPrompt}]

\* One call of build_chat_prompt
BuildChatPrompt ==
    /\ ~prompt_call.done
    /\ prompt_call' = [prompt_call EXCEPT
          !.done = TRUE,
          !.prompt = build_chat_prompt(prompt_call.classification, prompt_call.user_query,
                                       prompt_call.student_data, prompt_call.env, prompt_call.index)]

InitPromptIdle == prompt_call = NoPromptCall

InitPrompt == prompt_call \in PromptCalls

(***************************************************************************)
(* The keyword tables of build_chat_prompt in services/chat_response.py:   *)
(* the classification of the query by substrings of its lower-case text.   *)
(***************************************************************************)
VARIABLE keyword_call   \* [user_query, done, result]

keywordVars == <<keyword_call>>

\* The keys of dept_keywords of chat_response.py, in the order of the dict
response_dept_keywords ==
    << <<"c","o","m","p","u","t","e","r"," ","s","c","i","e","n","c","e">>, <<"c","s">>, <<"p","r","o","g","r","a","m","m","i","n","g">>, <<"e","c","o","n","o","m","i","c","s">>, <<"h","i","s","t","o","r","y">>, <<"p","h","i","l","o","s","o","p","h","y">>,
       <<"m","a","t","h">>, <<"m","a","t","h","e","m","a","t","i","c","s">>, <<"p","h","y","s","i","c","s">>, <<"c","h","e","m","i","s","t","r","y">>, <<"b","i","o","l","o","g","y">>, <<"e","n","g","l","i","s","h">>, <<"l","i","t","e","r","a","t","u","r","e">>,
       <<"p","o","l","i","t","i","c","s">>, <<"p","o","l","i","t","i","c","a","l"," ","s","c","i","e","n","c","e">>, <<"p","s","y","c","h","o","l","o","g","y">>, <<"s","o","c","i","o","l","o","g","y">>, <<"a","r","t">>, <<"m","u","s","i","c">>, <<"t","h","e","a","t","e","r">> >>

\* distribution_keywords, in the order of the dict
distribution_keywords ==
    << <<<<"c","d">>, <<"C","D"," ","(","C","u","l","t","u","r","e"," ","a","n","d"," ","D","i","f","f","e","r","e","n","c","e",")">>>>,
       <<<<"c","u","l","t","u","r","e"," ","a","n","d"," ","d","i","f","f","e","r","e","n","c","e">>, <<"C","D"," ","(","C","u","l","t","u","r","e"," ","a","n","d"," ","D","i","f","f","e","r","e","n","c","e",")">>>>,
       <<<<"e","c">>, <<"E","C"," ","(","E","p","i","s","t","e","m","o","l","o","g","y"," ","a","n","d"," ","C","o","g","n","i","t","i","o","n",")">>>>,
       <<<<"e","p","i","s","t","e","m","o","l","o","g","y"," ","a","n","d"," ","c","o","g","n","i","t","i","o","n">>, <<"E","C"," ","(","E","p","i","s","t","e","m","o","l","o","g","y"," ","a","n","d"," ","C","o","g","n","i","t","i","o","n",")">>>>,
       <<<<"e","p","i","s","t","e","m","o","l","o","g","y">>, <<"E","C"," ","(","E","p","i","s","t","e","m","o","l","o","g","y"," ","a","n","d"," ","C","o","g","n","i","t","i","o","n",")">>>>,
       <<<<"c","o","g","n","i","t","i","o","n">>, <<"E","C"," ","(","E","p","i","s","t","e","m","o","l","o","g","y"," ","a","n","d"," ","C","o","g","n","i","t","i","o","n",")">>>>,
       <<<<"e","m">>, <<"E","M"," ","(","E","t","h","i","c","a","l"," ","T","h","o","u","g","h","t"," ","a","n","d"," ","M","o","r","a","l"," ","V","a","l","u","e","s",")">>>>,
       <<<<"e","t","h","i","c","a","l"," ","t","h","o","u","g","h","t"," ","a","n","d"," ","m","o","r","a","l"," ","v","a","l","u","e","s">>, <<"E","M"," ","(","E","t","h","i","c","a","l"," ","T","h","o","u","g","h","t"," ","a","n","d"," ","M","o","r","a","l"," ","V","a","l","u","e","s",")">>>>,
       <<<<"e","t","h","i","c","a","l"," ","t","h","o","u","g","h","t">>, <<"E","M"," ","(","E","t","h","i","c","a","l"," ","T","h","o","u","g","h","t"," ","a","n","d"," ","M","o","r","a","l"," ","V","a","l","u","e","s",")">>>>,
       <<<<"m","o","r","a","l"," ","v","a","l","u","e","s">>, <<"E","M"," ","(","E","t","h","i","c","a","l"," ","T","h","o","u","g","h","t"," ","a","n","d"," ","M","o","r","a","l"," ","V","a","l","u","e","s",")">>>>,
       <<<<"e","t","h","i","c","s">>, <<"E","M"," ","(","E","t","h","i","c","a","l"," ","T","h","o","u","g","h","t"," ","a","n","d"," ","M","o","r","a","l"," ","V","a","l","u","e","s",")">>>>,
       <<<<"h","a">>, <<"H","A"," ","(","H","i","s","t","o","r","i","c","a","l"," ","A","n","a","l","y","s","i","s",")">>>>,
       <<<<"h","i","s","t","o","r","i","c","a","l"," ","a","n","a","l","y","s","i","s">>, <<"H","A"," ","(","H","i","s","t","o","r","i","c","a","l"," ","A","n","a","l","y","s","i","s",")">>>>,
       <<<<"l","a">>, <<"L","A"," ","(","L","i","t","e","r","a","t","u","r","e"," ","a","n","d"," ","t","h","e"," ","A","r","t","s",")">>>>,
       <<<<"l","i","t","e","r","a","t","u","r","e"," ","a","n","d"," ","t","h","e"," ","a","r","t","s">>, <<"L","A"," ","(","L","i","t","e","r","a","t","u","r","e"," ","a","n","d"," ","t","h","e"," ","A","r","t","s",")">>>>,
       <<<<"l","i","t","e","r","a","t","u","r","e"," ","a","n","d"," ","a","r","t","s">>, <<"L","A"," ","(","L","i","t","e","r","a","t","u","r","e"," ","a","n","d"," ","t","h","e"," ","A","r","t","s",")">>>>,
       <<<<"q","c","r">>, <<"Q","C","R"," ","(","Q","u","a","n","t","i","t","a","t","i","v","e"," ","a","n","d"," ","C","o","m","p","u","t","a","t","i","o","n","a","l"," ","R","e","a","s","o","n","i","n","g",")">>>>,
       <<<<"q","u","a","n","t","i","t","a","t","i","v","e"," ","a","n","d"," ","c","o","m","p","u","t","a","t","i","o","n","a","l"," ","r","e","a","s","o","n","i","n","g">>, <<"Q","C","R"," ","(","Q","u","a","n","t","i","t","a","t","i","v","e"," ","a","n","d"," ","C","o","m","p","u","t","a","t","i","o","n","a","l"," ","R","e","a","s","o","n","i","n","g",")">>>>,
       <<<<"q","u","a","n","t","i","t","a","t","i","v","e"," ","r","e","a","s","o","n","i","n","g">>, <<"Q","C","R"," ","(","Q","u","a","n","t","i","t","a","t","i","v","e"," ","a","n","d"," ","C","o","m","p","u","t","a","t","i","o","n","a","l"," ","R","e","a","s","o","n","i","n","g",")">>>>,
       <<<<"c","o","m","p","u","t","a","t","i","o","n","a","l"," ","r","e","a","s","o","n","i","n","g">>, <<"Q","C","R"," ","(","Q","u","a","n","t","i","t","a","t","i","v","e"," ","a","n","d"," ","C","o","m","p","u","t","a","t","i","o","n","a","l"," ","R","e","a","s","o","n","i","n","g",")">>>>,
       <<<<"s","e","l">>, <<"S","E","L"," ","(","S","c","i","e","n","c","e"," ","a","n","d"," ","E","n","g","i","n","e","e","r","i","n","g"," ","w","i","t","h"," ","L","a","b","o","r","a","t","o","r","y",")">>>>,
       <<<<"s","c","i","e","n","c","e"," ","a","n","d"," ","e","n","g","i","n","e","e","r","i","n","g"," ","w","i","t","h"," ","l","a","b">>, <<"S","E","L"," ","(","S","c","i","e","n","c","e"," ","a","n","d"," ","E","n","g","i","n","e","e","r","i","n","g"," ","w","i","t","h"," ","L","a","b","o","r","a","t","o","r","y",")">>>>,
       <<<<"s","c","i","e","n","c","e"," ","a","n","d"," ","e","n","g","i","n","e","e","r","i","n","g"," ","w","i","t","h"," ","l","a","b","o","r","a","t","o","r","y">>, <<"S","E","L"," ","(","S","c","i","e","n","c","e"," ","a","n","d"," ","E","n","g","i","n","e","e","r","i","n","g"," ","w","i","t","h"," ","L","a","b","o","r","a","t","o","r","y",")">>>>,
       <<<<"s","c","i","e","n","c","e"," ","w","i","t","h"," ","l","a","b">>, <<"S","E","L"," ","(","S","c","i","e","n","c","e"," ","a","n","d"," ","E","n","g","i","n","e","e","r","i","n","g"," ","w","i","t","h"," ","L","a","b","o","r","a","t","o","r","y",")">>>>,
       <<<<"s","c","i","e","n","c","e"," ","w","i","t","h"," ","l","a","b","o","r","a","t","o","r","y">>, <<"S","E","L"," ","(","S","c","i","e","n","c","e"," ","a","n","d"," ","E","n","g","i","n","e","e","r","i","n","g"," ","w","i","t","h"," ","L","a","b","o","r","a","t","o","r","y",")">>>>,
       <<<<"s","e","n">>, <<"S","E","N"," ","(","S","c","i","e","n","c","e"," ","a","n","d"," ","E","n","g","i","n","e","e","r","i","n","g"," ","N","o"," ","L","a","b",")">>>>,
       <<<<"s","c","i","e","n","c","e"," ","a","n","d"," ","e","n","g","i","n","e","e","r","i","n","g"," ","n","o"," ","l","a","b">>, <<"S","E","N"," ","(","S","c","i","e","n","c","e"," ","a","n","d"," ","E","n","g","i","n","e","e","r","i","n","g"," ","N","o"," ","L","a","b",")">>>>,
       <<<<"s","c","i","e","n","c","e"," ","n","o"," ","l","a","b">>, <<"S","E","N"," ","(","S","c","i","e","n","c","e"," ","a","n","d"," ","E","n","g","i","n","e","e","r","i","n","g"," ","N","o"," ","L","a","b",")">>>>,
       <<<<"s","c","i","e","n","c","e"," ","w","i","t","h","o","u","t"," ","l","a","b">>, <<"S","E","N"," ","(","S","c","i","e","n","c","e"," ","a","n","d"," ","E","n","g","i","n","e","e","r","i","n","g"," ","N","o"," ","L","a","b",")">>>>,
       <<<<"s","c","i","e","n","c","e"," ","w","i","t","h","o","u","t"," ","l","a","b","o","r","a","t","o","r","y">>, <<"S","E","N"," ","(","S","c","i","e","n","c","e"," ","a","n","d"," ","E","n","g","i","n","e","e","r","i","n","g"," ","N","o"," ","L","a","b",")">>>>,
       <<<<"s","a">>, <<"S","A"," ","(","S","o","c","i","a","l"," ","A","n","a","l","y","s","i","s",")">>>>,
       <<<<"s","o","c","i","a","l"," ","a","n","a","l","y","s","i","s">>, <<"S","A"," ","(","S","o","c","i","a","l"," ","A","n","a","l","y","s","i","s",")">>>>,
       <<<<"d","i","s","t","r","i","b","u","t","i","o","n">>, <<"d","i","s","t","r","i","b","u","t","i","o","n"," ","r","e","q","u","i","r","e","m","e","n","t">>>>,
       <<<<"d","i","s","t","r","i","b","u","t","i","o","n"," ","r","e","q","u","i","r","e","m","e","n","t">>, <<"d","i","s","t","r","i","b","u","t","i","o","n"," ","r","e","q","u","i","r","e","m","e","n","t">>>>,
       <<<<"f","u","l","f","i","l","l">>, <<"r","e","q","u","i","r","e","m","e","n","t">>>>,
       <<<<"r","e","q","u","i","r","e","m","e","n","t">>, <<"r","e","q","u","i","r","e","m","e","n","t">>>>,
       <<<<"p","r","e","r","e","q","u","i","s","i","t","e">>, <<"p","r","e","r","e","q","u","i","s","i","t","e">>>>,
       <<<<"p","r","e","r","e","q">>, <<"p","r","e","r","e","q","u","i","s","i","t","e">>>> >>

\* is_subject_query, is_requirement_query and requirement_type of chat_response.py:
\* the requirement keywords are looked at only when no department keyword is in the query
keyword_classification(user_query_) ==
    LET query_lower == Lower(user_query_)
        is_subject_query == ContainsAny(query_lower, response_dept_keywords)
        hits == { k \in DOMAIN distribution_keywords : Contains(query_lower, distribution_keywords[k][1]) }
        is_requirement_query == ~is_subject_query /\ hits # {}
    IN  [is_subject_query |-> is_subject_query,
         is_requirement_query |-> is_requirement_query,
         requirement_type |->
             IF is_requirement_query
               THEN distribution_keywords[CHOOSE k \in hits : \A j \in hits : k <= j][2]
               ELSE None]

\* The queries of this part: an opening, a topic, a requirement phrase and an ending
QueryOpenings == { <<>>, <<"I"," ","w","a","n","t"," ">>, <<"W","h","i","c","h"," ">> }

QueryTopics == { <<"h","i","s","t","o","r","y">>, <<"M","a","t","h">>, <<"p","h","y","s","i","c","s">>, <<"d","a","n","c","e">>, <<"w","r","i","t","i","n","g">> }

QueryRequirements == { <<>>, <<" ","Q","C","R">>, <<" ","f","o","r"," ","m","y"," ","d","i","s","t","r","i","b","u","t","i","o","n">>, <<" ","t","o"," ","f","u","l","f","i","l","l"," ","S","E","N">>, <<" ","p","r","e","r","e","q","u","i","s","i","t","e">> }

QueryEndings == { <<>>, <<" ","c","o","u","r","s","e","s">> }

KeywordQueries ==
    { o \o t \o r \o e : o \in QueryOpenings, t \in QueryTopics, r \in QueryRequirements, e \in QueryEndings }

NotClassifiedByKeywords == [is_subject_query |-> FALSE, is_requirement_query |-> FALSE, requirement_type |-> <<>>]

NoKeywordCall == [user_query |-> <<>>, done |-> FALSE, result |-> NotClassifiedByKeywords]

KeywordCalls == [user_query : KeywordQueries, done : {FALSE}, result : {NotClassifiedByKeywords}]

\* build_chat_prompt of chat_response.py classifies the query
ClassifyByKeywords ==
    /\ ~keyword_call.done
    /\ keyword_call' = [keyword_call EXCEPT !.done = TRUE,
                                            !.result = keyword_classification(keyword_call.user_query)]

InitKeywordsIdle == keyword_call = NoKeywordCall

InitKeywords == keyword_call \in KeywordCalls

(***************************************************************************)
(* The size caps of the prompts: the AVAILABLE COURSES list of             *)
(* build_recommendation_prompt (course_recommender.py) and the list of     *)
(* requirement matches of build_chat_prompt (chat_prompts.py).             *)
(***************************************************************************)
VARIABLE display_call   \* [kind, candidates, done, displayed]

displayVars == <<display_call>>

\* The number of available courses above which build_recommendation_prompt samples
sample_limit == 200

\* display_limit of the requirement section of build_chat_prompt
display_limit == 30

\* The number of leading elements of the ascending list b that come before x
\* (or_equal: or are equal to x), found by bisection between lo and hi
RECURSIVE Bisect(_, _, _, _, _)
Bisect(b, x, lo, hi, or_equal) ==
    IF lo >= hi THEN lo
    ELSE LET mid == (lo + hi) \div 2
             before == StrLess(b[mid + 1], x) \/ (or_equal /\ b[mid + 1] = x)
         IN  IF before THEN Bisect(b, x, mid + 1, hi, or_equal) ELSE Bisect(b, x, lo, mid, or_equal)

\* The merge of two ascending lists of texts; equal texts of a come first
MergeTexts(a, b) ==
    LET place_a == <<>> \o [i \in DOMAIN a |-> i + Bisect(b, a[i], 0, Len(b), FALSE)]
        place_b == <<>> \o [j \in DOMAIN b |-> j + Bisect(a, b[j], 0, Len(a), TRUE)]
    IN  <<>> \o [p \in 1..(Len(a) + Len(b)) |->
                    IF \E i \in DOMAIN a : place_a[i] = p
                      THEN a[CHOOSE i \in DOMAIN a : place_a[i] = p]
                      ELSE b[CHOOSE j \in DOMAIN b : place_b[j] = p]]

\* sorted(list) for a list of strings
RECURSIVE sorted(_)
sorted(list) ==
    IF Len(list) <= 1 THEN list
    ELSE LET half == Len(list) \div 2
         IN  MergeTexts(sorted(SubSeq(list, 1, half)), sorted(SubSeq(list, half + 1, Len(list))))

\* The sets of k of the positions 1..n
RECURSIVE Positions(_, _)
Positions(n, k) ==
    IF k <= 0 THEN {{}}
    ELSE { S \cup {i} : S \in Positions(n, k - 1), i \in 1..n } \ Positions(n, k - 1)

\* random.sample(available_courses, 200): any 200 of the positions, here by the
\* positions that are left out
Samples(available_courses) ==
    { SelectSeq([i \in DOMAIN available_courses |-> IF i \in left_out THEN <<>> ELSE available_courses[i]],
                LAMBDA course_code : course_code # <<>>) :
        left_out \in Positions(Len(available_courses), Len(available_courses) - sample_limit) }

\* The lists that the AVAILABLE COURSES section of build_recommendation_prompt can
\* show for available_courses
AvailableCourseLists(available_courses) ==
    IF Len(available_courses) > sample_limit
      THEN { Take(sorted(sampled_courses), sample_limit) : sampled_courses \in Samples(available_courses) }
      ELSE { sorted(available_courses) }

\* The requirement section of build_chat_prompt for "SEL" when the Distribution Index
\* lists matching_courses under it and the course details file holds them all
RequirementMatchesShown(matching_courses) ==
    build_chat_prompt([intent |-> <<"r","e","q","u","i","r","e","m","e","n","t">>, similarity_course_code |-> JNull,
                       requirement_type |-> JStr(<<"S","E","L">>), detected_dept_code |-> JNull],
                      <<"a"," ","l","a","b"," ","s","c","i","e","n","c","e">>,
                      [past_courses |-> {}, concentration |-> None, grade |-> None],
                      [embeddings |-> <<>>, courses_with_text |-> <<>>, embedding_ok |-> TRUE,
                       catalog_codes |-> matching_courses],
                      [code \in { <<"S","E","L">> } |-> matching_courses]).requirement_listed

\* The text of a number below 1000, three digits
ThreeDigits(n) ==
    LET digit(d) == <<"0","1","2","3","4","5","6","7","8","9">>[d + 1]
    IN  <<digit(n \div 100), digit((n \div 10) % 10), digit(n % 10)>>

\* n course codes in the order of a file: thirty AAS courses, then COS, then WRI
NumberedCodes(n) ==
    <<>> \o [i \in 1..n |-> (IF i <= 30 THEN <<"A","A","S">> ELSE IF i <= 200 THEN <<"C","O","S">> ELSE <<"W","R","I">>)
                               \o <<" ">> \o ThreeDigits(100 + i)]

\* The candidate lists of the model: below the caps, at the caps and one above them,
\* in the order of the file and in the opposite order
CandidateLists ==
    { NumberedCodes(n) : n \in {3, display_limit, display_limit + 1, sample_limit, sample_limit + 1} }
    \cup { Reversed(NumberedCodes(n)) : n \in {3, display_limit + 1, sample_limit + 1} }

NoDisplayCall == [kind |-> "none", candidates |-> <<>>, done |-> FALSE, displayed |-> <<>>]

DisplayCalls ==
    [kind : {"recommendation"}, candidates : CandidateLists, done : {FALSE}, displayed : {<<>>}]
    \cup [kind : {"requirement"},
          candidates : { c \in CandidateLists : Len(c) <= display_limit + 1 },
          done : {FALSE}, displayed : {<<>>}]

\* build_recommendation_prompt writes the AVAILABLE COURSES section
ShowAvailableCourses ==
    /\ display_call.kind = "recommendation" /\ ~display_call.done
    /\ \E shown \in AvailableCourseLists(display_call.candidates) :
          display_call' = [display_call EXCEPT !.done = TRUE, !.displayed = shown]

\* build_chat_prompt writes the requirement section
ShowRequirementMatches ==
    /\ display_call.kind = "requirement" /\ ~display_call.done
    /\ display_call' = [display_call EXCEPT !.done = TRUE,
                                            !.displayed = RequirementMatchesShown(display_call.candidates)]

InitDisplayIdle == display_call = NoDisplayCall

InitDisplay == display_call \in DisplayCalls

(***************************************************************************)
(* vector_search_courses (course_recommender.py) on its own, for every     *)
(* value of available_course_codes.                                        *)
(***************************************************************************)
VARIABLE search_call   \* [env, available_course_codes, top_k, done, result]

searchVars == <<search_call>>

\* The values of available_course_codes: None, the empty list, courses of the store,
\* a course that the store does not hold, and every course of the store
AvailableCodeLists ==
    { NoList, SomeList(<<>>), SomeList(<< <<"C","O","S"," ","1","2","6">>, <<"M","A","T"," ","2","0","1">> >>),
      SomeList(<< <<"M","A","T"," ","2","0","1">>, <<"C","O","S"," ","3","3","3">>, <<"C","O","S"," ","1","2","6">> >>),
      SomeList(<< <<"E","C","O"," ","1","0","0">> >>), SomeList(RecoCatalog) }

\* The values of top_k: below, at and above the number of courses of the store
TopKs == { 1, 2, 50 }

NoSearchCall ==
    [env |-> [embeddings |-> <<>>, courses_with_text |-> <<>>, embedding_ok |-> TRUE,
              catalog_codes |-> <<>>],
     available_course_codes |-> NoList, top_k |-> 0, done |-> FALSE,
     result |-> [raised |-> FALSE, results |-> <<>>]]

SearchCalls ==
    [env : SearchEnvs, available_course_codes : AvailableCodeLists, top_k : TopKs,
     done : {FALSE}, result : {[raised |-> FALSE, results |-> <<>>]}]

\* The call returns or raises
VectorSearch ==
    /\ ~search_call.done
    /\ search_call.top_k > 0
    /\ search_call' = [search_call EXCEPT
          !.done = TRUE,
          !.result = vector_search_courses(search_call.env.embeddings,
                                           search_call.env.courses_with_text,
                                           search_call.env.embedding_ok,
                                           search_call.available_course_codes,
                                           search_call.top_k)]

InitSearchIdle == search_call = NoSearchCall

InitSearch == search_call \in SearchCalls
(***************************************************************************)
(* Specifications.  Each one runs one part of the program; the variables   *)
(* of the other parts keep their initial values.                           *)
(***************************************************************************)
vars == <<llmVars, chatVars, distVars, classifyVars, recoVars, callVars, parseVars,
         contextVars, cacheVars, matchVars, studentVars, candidateVars, promptVars,
         keywordVars, displayVars, searchVars>>

\* The LLM client on its own: a caller has entered generate_chat_response or
\* generate_course_recommendations
LLMInit ==
    /\ InitLLM
    /\ InitChatIdle
    /\ InitDistIdle
    /\ InitClassifyIdle
    /\ InitRecoIdle
    /\ InitCallsIdle
    /\ InitParseIdle
    /\ InitContextIdle
    /\ InitCacheIdle
    /\ InitMatchIdle
    /\ InitStudentIdle
    /\ InitCandidatesIdle
    /\ InitPromptIdle
    /\ InitKeywordsIdle
    /\ InitDisplayIdle
    /\ InitSearchIdle

LLMFrame ==
    UNCHANGED <<chatVars, distVars, classifyVars, recoVars, callVars, parseVars,
                contextVars, cacheVars, matchVars, studentVars, candidateVars,
                promptVars, keywordVars, displayVars, searchVars>>

NextLLM ==
    \/ \E i \in Invocations : CompletionFails(i) /\ LLMFrame
    \/ \E i \in ChatInvocations : ChatCompletionReturns(i) /\ LLMFrame
    \/ \E i \in RecoInvocations : RecoCompletionReturns(i) /\ LLMFrame

SpecLLM ==
    LLMInit /\ [][NextLLM]_vars

\* The send-message route with its two requests and delete_chat
ChatInit ==
    /\ InitLLMIdle
    /\ InitChatIdle
    /\ InitDistIdle
    /\ InitClassifyIdle
    /\ InitRecoIdle
    /\ InitCallsIdle
    /\ InitParseIdle
    /\ InitContextIdle
    /\ InitCacheIdle
    /\ InitMatchIdle
    /\ InitStudentIdle
    /\ InitCandidatesIdle
    /\ InitPromptIdle
    /\ InitKeywordsIdle
    /\ InitDisplayIdle
    /\ InitSearchIdle

ChatFrame ==
    UNCHANGED <<distVars, classifyVars, recoVars, callVars, parseVars, contextVars,
                cacheVars, matchVars, studentVars, candidateVars, promptVars,
                keywordVars, displayVars, searchVars>>

NextChat ==
    \/ \E r \in Requests : ReceiveMessage(r) /\ ChatFrame
    \/ \E r \in Requests : PushUserMessage(r) /\ ChatFrame
    \/ \E r \in Requests : BuildPrompt(r) /\ ChatFrame
    \/ \E r \in Requests : ChatAttemptFails(r) /\ ChatFrame
    \/ \E r \in Requests : ChatAttemptReturns(r) /\ ChatFrame
    \/ \E r \in Requests : SaveModelMessage(r) /\ ChatFrame
    \/ DeleteChat /\ ChatFrame

SpecChat ==
    ChatInit /\ [][NextChat]_vars

\* The Distribution Index: generated from a catalog, then asked for a requirement
DistInit ==
    /\ InitLLMIdle
    /\ InitChatIdle
    /\ InitDist
    /\ InitClassifyIdle
    /\ InitRecoIdle
    /\ InitCallsIdle
    /\ InitParseIdle
    /\ InitContextIdle
    /\ InitCacheIdle
    /\ InitMatchIdle
    /\ InitStudentIdle
    /\ InitCandidatesIdle
    /\ InitPromptIdle
    /\ InitKeywordsIdle
    /\ InitDisplayIdle
    /\ InitSearchIdle

DistFrame ==
    UNCHANGED <<llmVars, chatVars, classifyVars, recoVars, callVars, parseVars,
                contextVars, cacheVars, matchVars, studentVars, candidateVars,
                promptVars, keywordVars, displayVars, searchVars>>

NextDist ==
    \/ GenerateDistributionMapping /\ DistFrame
    \/ UpdatePastCourses /\ DistFrame
    \/ Lookup /\ DistFrame

SpecDist ==
    DistInit /\ [][NextDist]_vars

\* The query classifier in every environment of the model
ClassifyInit ==
    /\ InitLLMIdle
    /\ InitChatIdle
    /\ InitDistIdle
    /\ InitClassify
    /\ InitRecoIdle
    /\ InitCallsIdle
    /\ InitParseIdle
    /\ InitContextIdle
    /\ InitCacheIdle
    /\ InitMatchIdle
    /\ InitStudentIdle
    /\ InitCandidatesIdle
    /\ InitPromptIdle
    /\ InitKeywordsIdle
    /\ InitDisplayIdle
    /\ InitSearchIdle

ClassifyFrame ==
    UNCHANGED <<llmVars, chatVars, distVars, recoVars, callVars, parseVars, contextVars,
                cacheVars, matchVars, studentVars, candidateVars, promptVars,
                keywordVars, displayVars, searchVars>>

NextClassify ==
    \/ Classify /\ ClassifyFrame

SpecClassify ==
    ClassifyInit /\ [][NextClassify]_vars

\* The recommendation route for every student, query and search environment
RecoInit ==
    /\ InitLLMIdle
    /\ InitChatIdle
    /\ InitDistIdle
    /\ InitClassifyIdle
    /\ InitReco
    /\ InitCallsIdle
    /\ InitParseIdle
    /\ InitContextIdle
    /\ InitCacheIdle
    /\ InitMatchIdle
    /\ InitStudentIdle
    /\ InitCandidatesIdle
    /\ InitPromptIdle
    /\ InitKeywordsIdle
    /\ InitDisplayIdle
    /\ InitSearchIdle

RecoFrame ==
    UNCHANGED <<chatVars, distVars, classifyVars, callVars, parseVars, contextVars,
                cacheVars, matchVars, studentVars, candidateVars, promptVars,
                keywordVars, displayVars, searchVars>>

NextReco ==
    \/ ReceiveRecommendationRequest /\ RecoFrame
    \/ RecoAttemptFails /\ RecoFrame
    \/ RecoAttemptReturns /\ RecoFrame

SpecReco ==
    RecoInit /\ [][NextReco]_vars

\* filter_and_rerank_courses on every call of the model
RerankInit ==
    /\ InitLLMIdle
    /\ InitChatIdle
    /\ InitDistIdle
    /\ InitClassifyIdle
    /\ InitRecoIdle
    /\ InitRerank
    /\ InitParseIdle
    /\ InitContextIdle
    /\ InitCacheIdle
    /\ InitMatchIdle
    /\ InitStudentIdle
    /\ InitCandidatesIdle
    /\ InitPromptIdle
    /\ InitKeywordsIdle
    /\ InitDisplayIdle
    /\ InitSearchIdle

RerankFrame ==
    UNCHANGED <<llmVars, chatVars, distVars, classifyVars, recoVars, parseVars,
                contextVars, cacheVars, matchVars, studentVars, candidateVars,
                promptVars, keywordVars, displayVars, searchVars>>

NextRerank ==
    \/ FilterAndRerank /\ RerankFrame

SpecRerank ==
    RerankInit /\ [][NextRerank]_vars

\* A similarity query about COS 226 for every student and search environment
SimilarInit ==
    /\ InitLLMIdle
    /\ InitChatIdle
    /\ InitDistIdle
    /\ InitClassifyIdle
    /\ InitSimilar
    /\ InitParseIdle
    /\ InitContextIdle
    /\ InitCacheIdle
    /\ InitMatchIdle
    /\ InitStudentIdle
    /\ InitCandidatesIdle
    /\ InitPromptIdle
    /\ InitKeywordsIdle
    /\ InitDisplayIdle
    /\ InitSearchIdle

SimilarFrame ==
    UNCHANGED <<llmVars, chatVars, distVars, classifyVars, recoVars, parseVars,
                contextVars, cacheVars, matchVars, studentVars, candidateVars,
                promptVars, keywordVars, displayVars, searchVars>>

NextSimilar ==
    \/ FindSimilar /\ SimilarFrame

SpecSimilar ==
    SimilarInit /\ [][NextSimilar]_vars

\* One attempt of generate_course_recommendations on every JSON completion text
ParseInit ==
    /\ InitLLMIdle
    /\ InitChatIdle
    /\ InitDistIdle
    /\ InitClassifyIdle
    /\ InitRecoIdle
    /\ InitCallsIdle
    /\ InitParse
    /\ InitContextIdle
    /\ InitCacheIdle
    /\ InitMatchIdle
    /\ InitStudentIdle
    /\ InitCandidatesIdle
    /\ InitPromptIdle
    /\ InitKeywordsIdle
    /\ InitDisplayIdle
    /\ InitSearchIdle

ParseFrame ==
    UNCHANGED <<llmVars, chatVars, distVars, classifyVars, recoVars, callVars,
                contextVars, cacheVars, matchVars, studentVars, candidateVars,
                promptVars, keywordVars, displayVars, searchVars>>

NextParse ==
    \/ ParseReply /\ ParseFrame

SpecParse ==
    ParseInit /\ [][NextParse]_vars

\* normalize_course_code on every spelling of the model
NormalizeInit ==
    /\ InitLLMIdle
    /\ InitChatIdle
    /\ InitDistIdle
    /\ InitClassifyIdle
    /\ InitRecoIdle
    /\ InitCallsIdle
    /\ InitNormalize
    /\ InitContextIdle
    /\ InitCacheIdle
    /\ InitMatchIdle
    /\ InitStudentIdle
    /\ InitCandidatesIdle
    /\ InitPromptIdle
    /\ InitKeywordsIdle
    /\ InitDisplayIdle
    /\ InitSearchIdle

NormalizeFrame ==
    UNCHANGED <<llmVars, chatVars, distVars, classifyVars, recoVars, callVars,
                contextVars, cacheVars, matchVars, studentVars, candidateVars,
                promptVars, keywordVars, displayVars, searchVars>>

NextNormalize ==
    \/ Normalize /\ NormalizeFrame
    \/ NormalizeAgain /\ NormalizeFrame

SpecNormalize ==
    NormalizeInit /\ [][NextNormalize]_vars

\* enhance_query_with_context on every query and history of the model
ContextInit ==
    /\ InitLLMIdle
    /\ InitChatIdle
    /\ InitDistIdle
    /\ InitClassifyIdle
    /\ InitRecoIdle
    /\ InitCallsIdle
    /\ InitParseIdle
    /\ InitContext
    /\ InitCacheIdle
    /\ InitMatchIdle
    /\ InitStudentIdle
    /\ InitCandidatesIdle
    /\ InitPromptIdle
    /\ InitKeywordsIdle
    /\ InitDisplayIdle
    /\ InitSearchIdle

ContextFrame ==
    UNCHANGED <<llmVars, chatVars, distVars, classifyVars, recoVars, callVars, parseVars,
                cacheVars, matchVars, studentVars, candidateVars, promptVars,
                keywordVars, displayVars, searchVars>>

NextContext ==
    \/ EnhanceQuery /\ ContextFrame

SpecContext ==
    ContextInit /\ [][NextContext]_vars

\* Three concurrent calls of one of the cache loaders in a process that has just started
CacheInit ==
    /\ InitLLMIdle
    /\ InitChatIdle
    /\ InitDistIdle
    /\ InitClassifyIdle
    /\ InitRecoIdle
    /\ InitCallsIdle
    /\ InitParseIdle
    /\ InitContextIdle
    /\ InitCache
    /\ InitMatchIdle
    /\ InitStudentIdle
    /\ InitCandidatesIdle
    /\ InitPromptIdle
    /\ InitKeywordsIdle
    /\ InitDisplayIdle
    /\ InitSearchIdle

CacheFrame ==
    UNCHANGED <<llmVars, chatVars, distVars, classifyVars, recoVars, callVars, parseVars,
                contextVars, matchVars, studentVars, candidateVars, promptVars,
                keywordVars, displayVars, searchVars>>

NextCache ==
    \/ \E t \in Calls : EnterLoad(t) /\ CacheFrame
    \/ \E t \in Calls : CheckCache(t) /\ CacheFrame
    \/ \E t \in Calls : ReturnCached(t) /\ CacheFrame
    \/ \E t \in Calls : ReadFile(t) /\ CacheFrame
    \/ \E t \in Calls : AssignCache(t) /\ CacheFrame
    \/ \E t \in Calls : ReturnLoaded(t) /\ CacheFrame

SpecCache ==
    CacheInit /\ [][NextCache]_vars

\* match_course_code on every course code and course details file of the model
MatchInit ==
    /\ InitLLMIdle
    /\ InitChatIdle
    /\ InitDistIdle
    /\ InitClassifyIdle
    /\ InitRecoIdle
    /\ InitCallsIdle
    /\ InitParseIdle
    /\ InitContextIdle
    /\ InitCacheIdle
    /\ InitMatch
    /\ InitStudentIdle
    /\ InitCandidatesIdle
    /\ InitPromptIdle
    /\ InitKeywordsIdle
    /\ InitDisplayIdle
    /\ InitSearchIdle

MatchFrame ==
    UNCHANGED <<llmVars, chatVars, distVars, classifyVars, recoVars, callVars, parseVars,
                contextVars, cacheVars, studentVars, candidateVars, promptVars,
                keywordVars, displayVars, searchVars>>

NextMatch ==
    \/ Match /\ MatchFrame

SpecMatch ==
    MatchInit /\ [][NextMatch]_vars

\* The recommendation route up to its prompt, for every session and users collection of the model
StudentInit ==
    /\ InitLLMIdle
    /\ InitChatIdle
    /\ InitDistIdle
    /\ InitClassifyIdle
    /\ InitRecoIdle
    /\ InitCallsIdle
    /\ InitParseIdle
    /\ InitContextIdle
    /\ InitCacheIdle
    /\ InitMatchIdle
    /\ InitStudent
    /\ InitCandidatesIdle
    /\ InitPromptIdle
    /\ InitKeywordsIdle
    /\ InitDisplayIdle
    /\ InitSearchIdle

StudentFrame ==
    UNCHANGED <<llmVars, chatVars, distVars, classifyVars, recoVars, callVars, parseVars,
                contextVars, cacheVars, matchVars, candidateVars, promptVars,
                keywordVars, displayVars, searchVars>>

NextStudent ==
    \/ FetchStudent /\ StudentFrame
    \/ CheckAvailableCourses /\ StudentFrame

SpecStudent ==
    StudentInit /\ [][NextStudent]_vars

\* The candidates of the subject/generic path for every student, query and search environment
CandidatesInit ==
    /\ InitLLMIdle
    /\ InitChatIdle
    /\ InitDistIdle
    /\ InitClassifyIdle
    /\ InitRecoIdle
    /\ InitCallsIdle
    /\ InitParseIdle
    /\ InitContextIdle
    /\ InitCacheIdle
    /\ InitMatchIdle
    /\ InitStudentIdle
    /\ InitCandidates
    /\ InitPromptIdle
    /\ InitKeywordsIdle
    /\ InitDisplayIdle
    /\ InitSearchIdle

CandidatesFrame ==
    UNCHANGED <<llmVars, chatVars, distVars, classifyVars, recoVars, callVars, parseVars,
                contextVars, cacheVars, matchVars, studentVars, promptVars, keywordVars,
                displayVars, searchVars>>

NextCandidates ==
    \/ ProduceCandidates /\ CandidatesFrame

SpecCandidates ==
    CandidatesInit /\ [][NextCandidates]_vars

\* build_chat_prompt for every classification, query, student and search environment of the model
PromptInit ==
    /\ InitLLMIdle
    /\ InitChatIdle
    /\ InitDistIdle
    /\ InitClassifyIdle
    /\ InitRecoIdle
    /\ InitCallsIdle
    /\ InitParseIdle
    /\ InitContextIdle
    /\ InitCacheIdle
    /\ InitMatchIdle
    /\ InitStudentIdle
    /\ InitCandidatesIdle
    /\ InitPrompt
    /\ InitKeywordsIdle
    /\ InitDisplayIdle
    /\ InitSearchIdle

PromptFrame ==
    UNCHANGED <<llmVars, chatVars, distVars, classifyVars, recoVars, callVars, parseVars,
                contextVars, cacheVars, matchVars, studentVars, candidateVars,
                keywordVars, displayVars, searchVars>>

NextPrompt ==
    \/ BuildChatPrompt /\ PromptFrame

SpecPrompt ==
    PromptInit /\ [][NextPrompt]_vars

\* The keyword classification of chat_response.py on every query of the model
KeywordsInit ==
    /\ InitLLMIdle
    /\ InitChatIdle
    /\ InitDistIdle
    /\ InitClassifyIdle
    /\ InitRecoIdle
    /\ InitCallsIdle
    /\ InitParseIdle
    /\ InitContextIdle
    /\ InitCacheIdle
    /\ InitMatchIdle
    /\ InitStudentIdle
    /\ InitCandidatesIdle
    /\ InitPromptIdle
    /\ InitKeywords
    /\ InitDisplayIdle
    /\ InitSearchIdle

KeywordsFrame ==
    UNCHANGED <<llmVars, chatVars, distVars, classifyVars, recoVars, callVars, parseVars,
                contextVars, cacheVars, matchVars, studentVars, candidateVars,
                promptVars, displayVars, searchVars>>

NextKeywords ==
    \/ ClassifyByKeywords /\ KeywordsFrame

SpecKeywords ==
    KeywordsInit /\ [][NextKeywords]_vars

\* The capped course lists of the two prompts for candidate lists around the caps
DisplayInit ==
    /\ InitLLMIdle
    /\ InitChatIdle
    /\ InitDistIdle
    /\ InitClassifyIdle
    /\ InitRecoIdle
    /\ InitCallsIdle
    /\ InitParseIdle
    /\ InitContextIdle
    /\ InitCacheIdle
    /\ InitMatchIdle
    /\ InitStudentIdle
    /\ InitCandidatesIdle
    /\ InitPromptIdle
    /\ InitKeywordsIdle
    /\ InitDisplay
    /\ InitSearchIdle

DisplayFrame ==
    UNCHANGED <<llmVars, chatVars, distVars, classifyVars, recoVars, callVars, parseVars,
                contextVars, cacheVars, matchVars, studentVars, candidateVars,
                promptVars, keywordVars, searchVars>>

NextDisplay ==
    \/ ShowAvailableCourses /\ DisplayFrame
    \/ ShowRequirementMatches /\ DisplayFrame

SpecDisplay ==
    DisplayInit /\ [][NextDisplay]_vars

\* vector_search_courses for every store, list of available courses and top_k of the model
SearchInit ==
    /\ InitLLMIdle
    /\ InitChatIdle
    /\ InitDistIdle
    /\ InitClassifyIdle
    /\ InitRecoIdle
    /\ InitCallsIdle
    /\ InitParseIdle
    /\ InitContextIdle
    /\ InitCacheIdle
    /\ InitMatchIdle
    /\ InitStudentIdle
    /\ InitCandidatesIdle
    /\ InitPromptIdle
    /\ InitKeywordsIdle
    /\ InitDisplayIdle
    /\ InitSearch

SearchFrame ==
    UNCHANGED <<llmVars, chatVars, distVars, classifyVars, recoVars, callVars, parseVars,
                contextVars, cacheVars, matchVars, studentVars, candidateVars,
                promptVars, keywordVars, displayVars>>

NextSearch ==
    \/ VectorSearch /\ SearchFrame

SpecSearch ==
    SearchInit /\ [][NextSearch]_vars

(***************************************************************************)
(* Claims about the retry loops.                                           *)
(***************************************************************************)
\* C1: generate_chat_response and generate_course_recommendations issue at most
\* max_retries (3) completion calls per invocation, whatever mixture of call failures
\* and too-short parses occurs; after the third failed attempt the error is raised to
\* the caller (the loop neither calls again nor falls out of the loop).
C1_BoundedRetries ==
    \A i \in Invocations :
        /\ api_calls[i] <= max_retries
        /\ (llm_pc[i] = "call" => api_calls[i] < max_retries)
        /\ (llm_pc[i] = "raised" => api_calls[i] = max_retries /\ llm_error[i] # "none")
        /\ (api_calls[i] = max_retries /\ llm_pc[i] # "returned" => llm_pc[i] = "raised")
        /\ llm_pc[i] # "fellthrough"

\* C1 witness: generate_course_recommendations raised after three calls that mixed
\* call failures with a too-short parse
C1_Witness ==
    /\ llm_pc["reco"] = "raised"
    /\ api_calls["reco"] = max_retries
    /\ short_parses["reco"] = 1

\* The entries of a reply that are course codes, normalized, in the reply's order
ValidItems(reply) == NormalizeAll(reply.items)

\* C2: generate_course_recommendations never returns a list whose length is not 5:
\* three too-short extractions end in ValueError, every returned code comes from the
\* reply (nothing is padded), and a reply with more than 5 codes gives its first 5.
C2_ExactlyFiveOrError ==
    \A i \in RecoInvocations :
        /\ (llm_pc[i] = "returned" =>
              /\ Len(llm_result[i]) = expected_count
              /\ Len(ValidItems(llm_reply[i])) >= expected_count
              /\ \A k \in DOMAIN llm_result[i] : InSeq(llm_result[i][k], ValidItems(llm_reply[i]))
              /\ (llm_reply[i].kind \in {"list", "dict"} =>
                     llm_result[i] = SubSeq(ValidItems(llm_reply[i]), 1, expected_count)))
        /\ (short_parses[i] = max_retries =>
              llm_pc[i] = "raised" /\ llm_error[i] = "ValueError")
        /\ (llm_pc[i] # "returned" => llm_result[i] = <<>>)

\* C2 witness: after a too-short extraction, a reply with more than 5 codes was
\* returned cut to 5
C2_Witness ==
    /\ llm_pc["reco"] = "returned"
    /\ short_parses["reco"] >= 1
    /\ Len(ValidItems(llm_reply["reco"])) > expected_count
    /\ Len(llm_result["reco"]) = expected_count


(***************************************************************************)
(* Claims about the send-message route.                                    *)
(***************************************************************************)
\* The model message the except branch of request r writes
ApologyOf(r) == [req |-> r, message |-> Apology]

\* C3 (as stated): once the user message of a request is appended, any failure while
\* building the prompt or generating the response leaves the user message persisted,
\* persists the apology as the model message of the turn and returns it with a
\* success status.
C3_ApologyAlwaysPersisted ==
    \A r \in Requests :
        (failure[r] # "none" /\ req_pc[r] = "done") =>
            /\ InSeq(r, userMessages)
            /\ InSeq(ApologyOf(r), modelMessages)
            /\ response[r] = [status |-> 201, body |-> Apology]

\* C3 (amended): after such a failure the user message stays in the chat for as long
\* as the chat exists (no rollback) and the apology is the turn's model message; when
\* the model-message write does not raise, the call answers 201 with the apology and
\* the apology is in the chat if the chat still exists; when that write raises, the
\* call answers 500 and the chat holds no model message for the turn.
C3_ApologyUnlessWriteFails ==
    \A r \in Requests :
        failure[r] # "none" =>
            /\ model_msg[r] = Apology
            /\ req_pc[r] \in {"save", "done"}
            /\ (chat_exists => InSeq(r, userMessages))
            /\ (req_pc[r] = "done" =>
                  \/ /\ response[r] = [status |-> 201, body |-> Apology]
                     /\ (chat_exists => InSeq(ApologyOf(r), modelMessages))
                  \/ /\ response[r].status = 500
                     /\ \A k \in DOMAIN modelMessages : modelMessages[k].req # r)

\* C3 witness: all three attempts of generate_chat_response failed for a request whose
\* user message is in the chat; the apology was saved and returned with 201
C3_Witness ==
    \E r \in Requests :
        /\ failure[r] = "generate_chat_response"
        /\ api_calls[r] = max_retries
        /\ req_pc[r] = "done"
        /\ chat_exists
        /\ InSeq(r, userMessages)
        /\ InSeq(ApologyOf(r), modelMessages)
        /\ response[r] = [status |-> 201, body |-> Apology]

(***************************************************************************)
(* Claims about the Distribution Index.                                    *)
(***************************************************************************)
\* The modern code of a requirement code, from the list of legacy synonyms
ModernCode(code) ==
    CASE code = <<"S","T","L">> -> <<"S","E","L">>
      [] code = <<"S","T","N">> -> <<"S","E","N">>
      [] code = <<"Q","R">> -> <<"Q","C","R">>
      [] OTHER -> code

\* key and code name the same course, with or without the space
SameCourse(key, code) == Unspaced(key) = Unspaced(code)

\* C6 (as stated): with exclude_taken the lookup returns the index entry of the code
\* minus every course the student has taken, whichever way the past course is
\* written ("AAS225" removes "AAS 225").
C6_TakenCoursesRemoved ==
    (lookup.done /\ lookup.exclude_taken) =>
        lookup.result =
            SelectSeq(GetList(lookup.distribution_mapping,
                              ModernCode(Upper(lookup.distribution_code))),
                      LAMBDA code : ~\E key \in lookup.past_courses : SameCourse(key, code))

Separators == SpaceSet \cup {","}

\* text[i..j] is a code written in a distribution string: a maximal run free of
\* separators
TokenAt(text, i, j) ==
    /\ i <= j
    /\ \A k \in i..j : text[k] \notin Separators
    /\ (i = 1 \/ text[i - 1] \in Separators)
    /\ (j = Len(text) \/ text[j + 1] \in Separators)

\* The distribution tags of a course as the catalog writes them
RawTags(distribution) ==
    IF distribution.form = "list" THEN Range(distribution.items)
    ELSE IF distribution.form = "str"
      THEN { SubSeq(distribution.text, p[1], p[2]) :
                p \in { q \in (DOMAIN distribution.text) \X (DOMAIN distribution.text) :
                           TokenAt(distribution.text, q[1], q[2]) } }
    ELSE {}

\* The normalized distribution tags of a course: trimmed, upper case, modern code
NormalizedTags(course) == { ModernCode(Upper(Strip(t))) : t \in RawTags(course.distribution) }

CourseOf(course_code) == catalog[CHOOSE i \in DOMAIN catalog : catalog[i].course_code = course_code]

\* C7: every course the generator placed under a code d, every course the lookup
\* returns for d and every course filter_courses_by_distribution returns for d has
\* (the normalized) d among its normalized distribution tags in the catalog.
C7_ExactDistributionMatch ==
    /\ \A d \in DOMAIN distribution_map : \A k \in DOMAIN distribution_map[d] :
          d \in NormalizedTags(CourseOf(distribution_map[d][k]))
    /\ lookup.done =>
          \A k \in DOMAIN lookup.result :
              ModernCode(Upper(lookup.distribution_code)) \in NormalizedTags(CourseOf(lookup.result[k]))
    /\ \A d \in QueryCodes :
          LET courses == filter_courses_by_distribution(catalog, d, past_courses, TRUE)
          IN  \A k \in DOMAIN courses : ModernCode(Upper(d)) \in NormalizedTags(CourseOf(courses[k]))

\* C7 witness: both courses were placed under SEL, one of them through the legacy tag
\* "stl", and a lookup returned them
C7_Witness ==
    /\ <<"S","E","L">> \in DOMAIN distribution_map
    /\ Len(distribution_map[<<"S","E","L">>]) = 2
    /\ \E i \in DOMAIN catalog : catalog[i].distribution.text = <<"s","t","l">>
    /\ lookup.done
    /\ Len(lookup.result) = 2

\* The spellings of one requirement: legacy and modern code, any letter case
RequirementSpellings ==
    { { <<"S","E","L">>, <<"S","T","L">>, <<"s","e","l">>, <<"s","t","l">>, <<"S","e","l">>, <<"s","T","L">> },
      { <<"S","E","N">>, <<"S","T","N">>, <<"s","e","n">>, <<"s","t","n">>, <<"S","t","n">> },
      { <<"Q","C","R">>, <<"Q","R">>, <<"q","c","r">>, <<"q","r">>, <<"Q","r">> },
      { <<"H","A">>, <<"h","a">>, <<"H","a">> } }

SpellingsOf(code) == UNION { c \in RequirementSpellings : code \in c }

\* C8: whatever past_courses and exclude_taken are, the lookup returns the same list
\* for every spelling of the requirement asked for: STL and SEL, STN and SEN, QR and
\* QCR, and any letter case of them.
C8_LegacyAndCaseEquivalent ==
    lookup.done =>
        \A other \in SpellingsOf(lookup.distribution_code) :
            get_courses_by_distribution(lookup.distribution_mapping, other,
                                        lookup.past_courses, lookup.exclude_taken)
              = lookup.result

\* C8 witness: the lower-case legacy code "stl" was looked up for a student with past
\* courses and returned the courses of SEL
C8_Witness ==
    /\ lookup.done
    /\ lookup.distribution_code = <<"s","t","l">>
    /\ lookup.exclude_taken
    /\ lookup.past_courses # {}
    /\ lookup.result # <<>>
    /\ lookup.result = GetList(lookup.distribution_mapping, <<"S","E","L">>)

(***************************************************************************)
(* Claims about the query classifier.                                      *)
(***************************************************************************)
\* The reply is not a JSON object with a usable intent
UnusableReply(content) ==
    \/ content.json # "object"
    \/ content.intent.t \in {"null", "number"}

\* C5 (as stated): classify_query_with_llm never propagates an error; whenever
\* obtaining the client or the completion call fails, or the reply is not a JSON
\* object with a usable intent, it returns the fallback classification.
C5_ClassifierNeverRaises ==
    classify_out # NotClassified =>
        /\ ~classify_out.raised
        /\ (classify_env.client_raises \/ classify_env.completion_raises
              \/ UnusableReply(classify_env.content))
             => classify_out.value = FallbackClassification

(***************************************************************************)
(* Claims about the recommendation route and the vector path.              *)
(***************************************************************************)
\* C4: get_course_recommendations never answers 200 after a failure of the embedding
\* call or of generate_course_recommendations: the failure ends the request with 400
\* or 500 and no courses, and the courses of a 200 answer are codes that
\* generate_course_recommendations returned.
C4_FailuresGiveErrors ==
    /\ rec_failure # {} =>
          /\ rec_pc = "done"
          /\ rec_response.status \in {400, 500}
          /\ rec_response.courses = <<>>
    /\ "embedding" \in rec_failure => llm_pc["reco"] = "idle"
    /\ rec_response.status = 200 =>
          /\ rec_failure = {}
          /\ llm_pc["reco"] = "returned"
          /\ \A k \in DOMAIN rec_response.courses :
                InSeq(rec_response.courses[k], llm_result["reco"])

\* C4 witness: the embedding call failed for a student with available courses and
\* the route answered 500 without asking the LLM
C4_Witness ==
    /\ rec_pc = "done"
    /\ rec_failure = {"embedding"}
    /\ ~search_env.embedding_ok
    /\ rec_response = [status |-> 500, courses |-> <<>>]
    /\ api_calls["reco"] = 0

\* The course the similarity queries of the model are about
AnchorCourse == <<"C","O","S"," ","2","2","6">>

IsAnchor(course_code) == Unspaced(Upper(course_code)) = Unspaced(AnchorCourse)

\* C9 (as stated): for a similarity query anchored on a course, neither the candidates
\* of get_vector_based_recommendations nor the courses listed by the similarity block
\* of build_chat_prompt include that course.
C9_AnchorExcluded ==
    similar_call.done =>
        /\ \A k \in DOMAIN similar_call.recommendations.codes :
              ~IsAnchor(similar_call.recommendations.codes[k])
        /\ \A k \in DOMAIN similar_call.listing : ~IsAnchor(similar_call.listing[k])

\* The numeric level of a code exceeds max_level: the character after the first
\* space is a digit d and d * 100 > max_level
LevelExceeds(course_code, max_level) ==
    \E i \in DOMAIN course_code :
        /\ course_code[i] = " "
        /\ \A j \in 1..(i - 1) : course_code[j] # " "
        /\ i < Len(course_code)
        /\ course_code[i + 1] \in Digits
        /\ DigitValue[course_code[i + 1]] * 100 > max_level

\* The three hard filters on a candidate of a call
PassesHardFilters(candidate, call) ==
    /\ candidate.score >= call.min_similarity
    /\ candidate.course_code \notin call.past_courses
    /\ call.max_level.set => ~LevelExceeds(candidate.course_code, call.max_level.value)

\* C10: a candidate given to filter_and_rerank_courses is in the output if and only if
\* it passes the three hard filters, and the output holds no other code.
C10_HardFilters ==
    rerank_call.done =>
        /\ \A i \in DOMAIN rerank_call.vector_results :
              PassesHardFilters(rerank_call.vector_results[i], rerank_call)
                <=> InSeq(rerank_call.vector_results[i].course_code, CodesOf(rerank_call.result))
        /\ \A k \in DOMAIN rerank_call.result :
              \E i \in DOMAIN rerank_call.vector_results :
                  rerank_call.vector_results[i].course_code = rerank_call.result[k].course_code
        /\ Len(rerank_call.result)
             = Cardinality({ i \in DOMAIN rerank_call.vector_results :
                               PassesHardFilters(rerank_call.vector_results[i], rerank_call) })

\* C10 witness: of two candidates with enough similarity the one already taken was
\* dropped, the other one was kept although max_level is set
C10_Witness ==
    /\ rerank_call.done
    /\ Len(rerank_call.vector_results) = 2
    /\ \A i \in DOMAIN rerank_call.vector_results :
          rerank_call.vector_results[i].score >= rerank_call.min_similarity
    /\ rerank_call.vector_results[1].course_code \in rerank_call.past_courses
    /\ rerank_call.max_level.set
    /\ CodesOf(rerank_call.result) = << rerank_call.vector_results[2].course_code >>

\* Place of a course code in the vector results given to the call
PlaceOf(course_code, vector_results) ==
    CHOOSE i \in DOMAIN vector_results : vector_results[i].course_code = course_code

\* C11: the output of filter_and_rerank_courses is in descending order of adjusted
\* score, and two candidates with the same adjusted score stand in the order they had
\* in the input; the output is therefore determined by the input.
C11_StableDescending ==
    rerank_call.done =>
        \A i \in DOMAIN rerank_call.result : \A j \in DOMAIN rerank_call.result :
            i < j =>
                \/ rerank_call.result[i].score > rerank_call.result[j].score
                \/ /\ rerank_call.result[i].score = rerank_call.result[j].score
                   /\ PlaceOf(rerank_call.result[i].course_code, rerank_call.vector_results)
                        < PlaceOf(rerank_call.result[j].course_code, rerank_call.vector_results)

\* C11 witness: a call that kept two candidates of equal adjusted score, in the order
\* of the input
C11_Witness ==
    /\ rerank_call.done
    /\ Len(rerank_call.result) = 2
    /\ rerank_call.result[1].score = rerank_call.result[2].score
    /\ CodesOf(rerank_call.result) = CodesOf(rerank_call.vector_results)


(***************************************************************************)
(* Claims about parse_course_codes and normalize_course_code.              *)
(***************************************************************************)
\* The completion texts that are a JSON array
IsJsonArray(reply) == reply.kind \in {"list", "list_nonstring"}

\* C12: on a JSON array parse_course_codes does not fail and returns the normalized
\* form of every valid entry in the order of the array; when that count is not 5 the
\* loop of generate_course_recommendations does not return (it retries while an
\* attempt is left).
C12_JsonArrayParsed ==
    (parse_call.done /\ IsJsonArray(parse_call.reply)) =>
        /\ ~parse_call.parsed.raised
        /\ parse_call.parsed.codes = ValidItems(parse_call.reply)
        /\ (Len(parse_call.parsed.codes) # expected_count =>
              /\ parse_call.decision.pc # "returned"
              /\ (parse_call.attempt < max_retries - 1 => parse_call.decision.pc = "call"))

\* The example of C12: '["COS 126", "ECO100", "bad"]' gives ["COS 126", "ECO 100"] and
\* the first attempt is followed by a retry
C12_Example ==
    (parse_call.done /\ parse_call.reply.kind = "list"
       /\ parse_call.reply.items = <<COS_126, ECO100, bad>>) =>
        /\ parse_call.parsed = [raised |-> FALSE, codes |-> << <<"C","O","S"," ","1","2","6">>, <<"E","C","O"," ","1","0","0">> >>]
        /\ (parse_call.attempt = 0 => parse_call.decision.pc = "call")

\* C12 for arrays of at most 5 strings: what remains true of the claim
C12_ShortStringArrays ==
    (parse_call.done /\ parse_call.reply.kind = "list"
       /\ Len(ValidItems(parse_call.reply)) <= expected_count) =>
        /\ ~parse_call.parsed.raised
        /\ parse_call.parsed.codes = ValidItems(parse_call.reply)
        /\ (Len(parse_call.parsed.codes) # expected_count =>
              parse_call.decision.pc # "returned")

\* A spelling without its blanks, dashes and quotes, in upper case
IsFiller(c) == IsSpace(c) \/ IsQuote(c) \/ c = "-"

Squeezed(s) ==
    LET Kept(c) == ~IsFiller(c)
    IN  SelectSeq(Upper(s), Kept)

\* The course code a spelling stands for, None when it stands for none: three letters
\* and three digits once the fillers are gone
CodeSpelled(s) ==
    IF MatchesUnspaced(Squeezed(s))
      THEN SubSeq(Squeezed(s), 1, 3) \o <<" ">> \o SubSeq(Squeezed(s), 4, 6)
      ELSE None

\* C13: normalize_course_code gives every spelling of a course code (lower case,
\* unspaced, spaced) the same canonical "SUBJECT NNN", gives no result for a spelling
\* of no code, and leaves its own results unchanged.
C13_NormalizeCanonical ==
    /\ (normalize_call.step >= 1 =>
          normalize_call.result = CodeSpelled(normalize_call.course_code))
    /\ (normalize_call.step = 2 => normalize_call.again = normalize_call.result)

\* C13 witness: "cos126" was normalized to "COS 126", and "COS 126" to itself
C13_Witness ==
    /\ normalize_call.step = 2
    /\ normalize_call.course_code = <<"c","o","s","1","2","6">>
    /\ normalize_call.result = <<"C","O","S"," ","1","2","6">>
    /\ normalize_call.again = <<"C","O","S"," ","1","2","6">>

\* The examples of C13: "COS 126" gives itself and "AB12" gives no result
C13_Examples ==
    normalize_call.step >= 1 =>
        /\ (normalize_call.course_code = <<"C","O","S"," ","1","2","6">> => normalize_call.result = <<"C","O","S"," ","1","2","6">>)
        /\ (normalize_call.course_code = <<"A","B","1","2">> => normalize_call.result = None)


(***************************************************************************)
(* Claims about context fusion.                                            *)
(***************************************************************************)
\* C14: with no conversation history are_queries_related answers (False, None) and
\* enhance_query_with_context returns the query unchanged, whatever the query contains.
C14_NoHistoryNoContext ==
    (context_call.done /\ context_call.previous_queries = <<>>
       /\ context_call.previous_responses = <<>>) =>
        /\ context_call.related = NotRelated
        /\ context_call.enhanced = context_call.current_query

\* C14 witness: a query with a continuation keyword, a demonstrative and a department
\* code came back unchanged from a call without history
C14_Witness ==
    /\ context_call.done
    /\ context_call.previous_queries = <<>>
    /\ context_call.previous_responses = <<>>
    /\ context_call.current_query = <<"w","h","a","t"," ","a","b","o","u","t"," ","t","h","o","s","e"," ","i","n"," ","C","O","S">>
    /\ ContainsAny(Lower(context_call.current_query), continuation_keywords)
    /\ ContainsAny(Lower(context_call.current_query), continuation_words)
    /\ extract_entities(context_call.current_query, "ascending").department_codes # <<>>
    /\ context_call.enhanced = context_call.current_query


(***************************************************************************)
(* Claims about the caches.                                                *)
(***************************************************************************)
\* The calls that were in the function together with call t before either had the
\* cache: concurrent first accesses
FirstAccess(t) == load_pc[t] = "done" /\ ~found_cached[t]

\* C15: calls that make the first access to a cache concurrently return the same
\* parsed content, the content of the file; the cache then holds exactly that content
\* under every interleaving; a populated cache never changes its content or becomes
\* empty again, and a call that finds it populated returns it without reading the file.
C15_ConcurrentFirstAccess ==
    /\ \A t \in Calls : \A u \in Calls :
          (FirstAccess(t) /\ FirstAccess(u)) =>
              /\ load_result[t].outcome = load_result[u].outcome
              /\ load_result[t].content = load_result[u].content
    /\ \A t \in Calls :
          (load_pc[t] = "done" /\ data_file.state = "readable") =>
              /\ load_result[t].outcome = "returned"
              /\ load_result[t].content = data_file.content
              /\ cache.set
    /\ cache.set => cache.content = data_file.content
    /\ \A t \in Calls : found_cached[t] => (cache.set /\ ~file_reads[t])

\* C15 witness: two calls both found the cache empty, both read the file, the second
\* assignment replaced the object of the first, and both calls are back with the
\* content of the file
C15_Witness ==
    /\ FirstAccess("t1") /\ FirstAccess("t2")
    /\ file_reads["t1"] /\ file_reads["t2"]
    /\ cache.set /\ cache.parsed_by = "t2"
    /\ load_result["t1"].parsed_by = "t2"
    /\ load_result["t2"].content = data_file.content
    /\ load_pc["t3"] = "done" /\ found_cached["t3"]


(***************************************************************************)
(* Claims about match_course_code.                                         *)
(***************************************************************************)
\* The code "SUBJECT NUMBER"
CodeOf(subject, catalog_number) == subject \o <<" ">> \o catalog_number

\* C16: whenever the record of course A lists B among its crosslistings,
\* match_course_code(B) returns the same record as match_course_code(A), whichever
\* subject's course list the record is stored under.  Stated on the call that looked
\* up B: for every record of the file that lists the looked-up code as a crosslisting,
\* the result is the record that the primary code of that record resolves to.
C16_CrosslistingResolves ==
    match_call.step = 1 =>
        \A s \in DOMAIN match_call.subjects :
            \A c \in DOMAIN match_call.subjects[s].courses :
                LET course == match_call.subjects[s].courses[c]
                    A == CodeOf(match_call.subjects[s].code, course.catalog_number)
                IN  \A k \in DOMAIN course.crosslistings :
                        LET B == CodeOf(course.crosslistings[k].subject, course.crosslistings[k].catalog_number)
                        IN  B = match_call.course_code =>
                                /\ match_call.result # NoCourse
                                /\ match_call.result.guid = match_course_code(A, match_call.subjects).guid

\* What the code does give: a record that is returned is stored under the subject of
\* the looked-up code, as the first course with that number or else the first course
\* naming the code among its crosslistings.
C16_FoundUnderOwnSubject ==
    (match_call.step = 1 /\ match_call.result # NoCourse) =>
        \E s \in DOMAIN match_call.subjects :
            /\ Upper(match_call.subjects[s].code) = Upper(SubSeq(match_call.course_code, 1, 3))
            /\ InSeq(match_call.result, match_call.subjects[s].courses)


(***************************************************************************)
(* Claims about get_student_data.                                          *)
(***************************************************************************)
\* The lookup of the call finds no stored record: the id is not in the collection,
\* is not an ObjectId, or the database does not answer
NoStoredRecord ==
    \/ student_call.user_id \notin DOMAIN student_call.db.users
    \/ ~student_call.db.up

\* C17: looking up a student id that has no stored record (or a lookup that fails)
\* gives no usable student profile, and the route answers the caller with 404.
C17_UnknownStudentNotFound ==
    (student_call.user_id # <<>> /\ NoStoredRecord) =>
        /\ student_call.step = "fetched" => student_call.profile = NoProfile
        /\ student_call.step = "done" => student_call.status = "404"

\* What the code gives: such a lookup is answered with the default profile, and the
\* route goes on with it, to 400 or to a recommendation.
C17_UnknownStudentGetsDefault ==
    (student_call.user_id # <<>> /\ NoStoredRecord /\ student_call.step # "idle") =>
        /\ student_call.profile = DefaultProfile
        /\ student_call.step = "done" => student_call.status \in {"400", "recommends"}


(***************************************************************************)
(* Claims about the candidates of the subject/generic path.                *)
(***************************************************************************)
\* The call is one of the claim: no past courses, a concentration, no similarity query
SubjectPathCall ==
    /\ candidates_call.done
    /\ candidates_call.student_data.past_courses = {}
    /\ Truthy(candidates_call.student_data.concentration)
    /\ ~is_similarity_query(candidates_call.user_query)

\* The course belongs to the department
InDepartment(course_code, department_code) == Upper(SplitWords(course_code)[1]) = Upper(department_code)

\* C18: for a student with empty past_courses and a concentration C and a
\* non-similarity query, every candidate of get_available_courses_for_prompt and of
\* get_vector_based_recommendations belongs to department C and none is a key of
\* past_courses.
C18_CandidatesInDepartment ==
    SubjectPathCall =>
        /\ \A i \in DOMAIN candidates_call.available_courses :
              /\ InDepartment(candidates_call.available_courses[i], candidates_call.student_data.concentration)
              /\ candidates_call.available_courses[i] \notin candidates_call.student_data.past_courses
        /\ \A i \in DOMAIN candidates_call.candidates.codes :
              /\ InDepartment(candidates_call.candidates.codes[i], candidates_call.student_data.concentration)
              /\ candidates_call.candidates.codes[i] \notin candidates_call.student_data.past_courses

\* What the code gives: the same, for a concentration that has courses in the catalog.
C18_DepartmentWithCourses ==
    (SubjectPathCall /\ candidates_call.available_courses # <<>>) =>
        \A i \in DOMAIN candidates_call.candidates.codes :
            /\ InSeq(candidates_call.candidates.codes[i], candidates_call.available_courses)
            /\ InDepartment(candidates_call.candidates.codes[i], candidates_call.student_data.concentration)


(***************************************************************************)
(* Claims about build_chat_prompt.                                         *)
(***************************************************************************)
\* The instruction block that belongs to an intent
BlockOfIntent(intent) ==
    IF intent = <<"s","i","m","i","l","a","r","i","t","y">> THEN "similarity"
    ELSE IF intent = <<"r","e","q","u","i","r","e","m","e","n","t">> THEN "requirement"
    ELSE "subject"

\* C19: for every classification result build_chat_prompt returns a pair whose
\* instruction block is the one of the classified intent: the similarity block for a
\* similarity intent, the requirement block for a requirement intent, also when the
\* requirement code is absent or not recognized, and the subject block otherwise.
C19_InstructionBlockOfIntent ==
    prompt_call.done =>
        /\ prompt_call.prompt.raised = "none"
        /\ prompt_call.prompt.instruction_block = BlockOfIntent(prompt_call.classification.intent)

\* What the code gives: a returned prompt has the similarity block exactly for a
\* similarity intent with a course code, otherwise the requirement block for a
\* requirement intent whose requirement type is a string, otherwise the subject block;
\* a requirement intent without requirement type ends in a TypeError.
C19_BlockOfReturnedPrompt ==
    prompt_call.done =>
        LET c == prompt_call.classification
            with_code == c.intent = <<"s","i","m","i","l","a","r","i","t","y">> /\ TruthyValue(c.similarity_course_code)
        IN  /\ (prompt_call.prompt.raised = "none") =>
                  prompt_call.prompt.instruction_block =
                      IF with_code THEN "similarity"
                      ELSE IF c.intent = <<"r","e","q","u","i","r","e","m","e","n","t">> THEN "requirement"
                      ELSE "subject"
            /\ (c.intent = <<"r","e","q","u","i","r","e","m","e","n","t">> /\ c.requirement_type.t = "null") =>
                  prompt_call.prompt.raised = "TypeError"

\* C20: exactly one retrieval strategy contributes candidate courses to the context
\* message: a requirement query lists only Distribution Index matches for its code, a
\* similarity query lists only vector-search results, and only a subject/generic query
\* lists the department/catalog courses.
C20_OneRetrievalStrategy ==
    (prompt_call.done /\ prompt_call.prompt.raised = "none") =>
        LET c == prompt_call.classification
            p == prompt_call.prompt
        IN  /\ c.intent = <<"r","e","q","u","i","r","e","m","e","n","t">> =>
                  /\ p.similarity_listed = <<>> /\ p.available_listed = <<>>
                  /\ \A i \in DOMAIN p.requirement_listed :
                        InSeq(p.requirement_listed[i], GetList(prompt_call.index, c.requirement_type.v))
            /\ c.intent = <<"s","i","m","i","l","a","r","i","t","y">> =>
                  p.requirement_listed = <<>> /\ p.available_listed = <<>>
            /\ c.intent \notin { <<"r","e","q","u","i","r","e","m","e","n","t">>, <<"s","i","m","i","l","a","r","i","t","y">> } =>
                  p.requirement_listed = <<>> /\ p.similarity_listed = <<>>

\* What the code gives: no context message lists courses of two strategies, and the
\* requirement section lists matches of the Distribution Index only; the catalog
\* courses are listed for a similarity query exactly when the similarity section
\* looked up no course.
C20_AtMostOneStrategy ==
    (prompt_call.done /\ prompt_call.prompt.raised = "none") =>
        LET c == prompt_call.classification
            p == prompt_call.prompt
        IN  /\ Cardinality({ l \in {p.requirement_listed, p.similarity_listed, p.available_listed} : l # <<>> }) <= 1
            /\ c.intent = <<"r","e","q","u","i","r","e","m","e","n","t">> => (p.similarity_listed = <<>> /\ p.available_listed = <<>>)
            /\ (c.intent = <<"s","i","m","i","l","a","r","i","t","y">> /\ p.similarity_listed # <<>>) => p.available_listed = <<>>


(***************************************************************************)
(* Claims about the keyword classifier of chat_response.py.                *)
(***************************************************************************)
\* The query names a distribution requirement: one of the phrases of the model is in it
NamesRequirement(user_query_) ==
    \E r \in QueryRequirements \ {<<>>} : Contains(user_query_, r)

\* The query names a department: one of the topics that are department keywords
NamesDepartment(user_query_) ==
    \E t \in { <<"h","i","s","t","o","r","y">>, <<"M","a","t","h">>, <<"p","h","y","s","i","c","s">> } : Contains(user_query_, t)

\* C21: the keyword classifier gives requirement priority over subject: a query that
\* matches both a distribution-requirement keyword and a department keyword is
\* classified as a requirement query, not as a subject query.
C21_RequirementBeforeSubject ==
    (keyword_call.done /\ NamesRequirement(keyword_call.user_query) /\ NamesDepartment(keyword_call.user_query)) =>
        /\ keyword_call.result.is_requirement_query
        /\ keyword_call.result.requirement_type # None

\* What the code gives: the opposite order.  A query with a department keyword is
\* never a requirement query, whatever requirement it names.
C21_SubjectBeforeRequirement ==
    (keyword_call.done /\ NamesDepartment(keyword_call.user_query)) =>
        /\ keyword_call.result.is_subject_query
        /\ ~keyword_call.result.is_requirement_query
        /\ keyword_call.result.requirement_type = None


(***************************************************************************)
(* Claims about the heuristics of are_queries_related.                     *)
(***************************************************************************)
\* The call has history, and its query is long, holds a referential word, holds no
\* continuation keyword, starts with no exclusion, and shares too few entities with the
\* previous queries
LongReferentialQuery ==
    LET q == context_call.current_query
        entities(text) == extract_entities(text, context_call.set_order)
    IN  /\ context_call.done
        /\ context_call.previous_queries # <<>>
        /\ WordCount(q) > 5
        /\ ContainsAny(Lower(q), continuation_words)
        /\ ~ContainsAny(Lower(q), continuation_keywords)
        /\ ~\E p \in DOMAIN exclusion_prefixes : StartsWith(Lower(q), exclusion_prefixes[p])
        /\ ~entity_overlap_exceeds(entities(q),
                                   [i \in DOMAIN context_call.previous_queries |->
                                       entities(context_call.previous_queries[i])])

\* C22: heuristic (b) fires only for a short query: with history, a query of more
\* than 5 words that holds a referential pronoun or demonstrative, no continuation or
\* exclusion keyword and too little entity overlap is reported as not related.
C22_ReferenceNeedsShortQuery ==
    LongReferentialQuery => ~context_call.related.is_related

\* What the code gives: with history, a referential word anywhere in the query makes
\* it related, whatever its length; the length matters for the exclusion prefixes only.
C22_ReferenceAloneRelates ==
    (context_call.done /\ context_call.previous_queries # <<>>
        /\ ContainsAny(Lower(context_call.current_query), continuation_words)) =>
            context_call.related.is_related


(***************************************************************************)
(* Claims about the intents of classify_query_with_llm.                    *)
(***************************************************************************)
KnownIntents == { <<"s","i","m","i","l","a","r","i","t","y">>, <<"r","e","q","u","i","r","e","m","e","n","t">>, <<"s","u","b","j","e","c","t">>, <<"g","e","n","e","r","i","c">> }

\* C23: every result returned by classify_query_with_llm has an intent in
\* {similarity, requirement, subject, generic}; a reply with any other intent is
\* replaced by the fallback classification.
C23_IntentInEnum ==
    (classify_out # NotClassified /\ ~classify_out.raised) =>
        /\ classify_out.value.intent \in KnownIntents
        /\ (classify_env.content.json = "object" /\ classify_env.content.intent.t = "str"
               /\ ~classify_env.client_raises /\ ~classify_env.completion_raises
               /\ Lower(classify_env.content.intent.v) \notin KnownIntents)
             => classify_out.value = FallbackClassification

\* What the code gives: the intent string of the reply in lower case, whatever it
\* says, unless another field of the reply made the normalization fail.
C23_IntentPassedOn ==
    (classify_out # NotClassified /\ ~classify_out.raised
        /\ ~classify_env.completion_raises
        /\ classify_env.content.json = "object" /\ classify_env.content.intent.t = "str"
        /\ classify_env.content.requirement_type.t # "number") =>
            classify_out.value.intent = Lower(classify_env.content.intent.v)

\* The lists that a prompt can show for the candidates of the call
ShownLists ==
    IF display_call.kind = "recommendation"
      THEN AvailableCourseLists(display_call.candidates)
      ELSE { RequirementMatchesShown(display_call.candidates) }

\* The candidates of the call are more than the cap of its prompt
OverCap ==
    \/ display_call.kind = "recommendation" /\ Len(display_call.candidates) > sample_limit
    \/ display_call.kind = "requirement" /\ Len(display_call.candidates) > display_limit

\* C24 (as the specification states it): when the candidates are more than the cap of
\* the prompt, the displayed ones are sampled over the whole set, so every candidate,
\* whatever its position, is in one of the lists the prompt can show; this holds of
\* the 200-course cap of build_recommendation_prompt and of the 30-course cap of the
\* requirement matches of build_chat_prompt.
C24_SampledOverWholeSet ==
    (~display_call.done /\ OverCap) =>
        Range(display_call.candidates) \subseteq UNION { Range(shown) : shown \in ShownLists }

\* C24 (what the code gives): the available courses of build_recommendation_prompt are
\* sampled over the whole list, while the requirement matches of build_chat_prompt are
\* the first thirty of the Distribution Index list, in its order.
C24_RequirementShowsFirstThirty ==
    /\ (display_call.kind = "recommendation" /\ ~display_call.done /\ OverCap) =>
          Range(display_call.candidates) \subseteq UNION { Range(shown) : shown \in ShownLists }
    /\ (display_call.kind = "requirement" /\ display_call.done) =>
          display_call.displayed = Take(display_call.candidates, display_limit)

\* The results of the call are in non-increasing order of score and at most top_k
OrderedTopK ==
    /\ Len(search_call.result.results) <= search_call.top_k
    /\ \A i, j \in DOMAIN search_call.result.results :
          i < j => search_call.result.results[i].score >= search_call.result.results[j].score

\* C25 (as the specification states it): whenever a list of available course codes is
\* supplied, the empty list included, vector_search_courses returns at most top_k
\* courses in non-increasing order of score and every returned code is a member of the
\* supplied list, so nothing is returned for the empty list.
C25_ResultsWithinSuppliedList ==
    (search_call.done /\ search_call.available_course_codes.set) =>
        /\ OrderedTopK
        /\ \A i \in DOMAIN search_call.result.results :
              InSeq(search_call.result.results[i].course_code, search_call.available_course_codes.items)

\* C25 (what the code gives): the results are ordered and at most top_k; they are
\* within a supplied list that is not empty, and for the empty list they are those of
\* the call without a list.
C25_EmptyListSearchesWholeStore ==
    search_call.done =>
        /\ OrderedTopK
        /\ (search_call.available_course_codes.set /\ search_call.available_course_codes.items # <<>>) =>
              \A i \in DOMAIN search_call.result.results :
                  InSeq(search_call.result.results[i].course_code,
                        search_call.available_course_codes.items)
        /\ search_call.available_course_codes = SomeList(<<>>) =>
              search_call.result = vector_search_courses(search_call.env.embeddings,
                                      search_call.env.courses_with_text, search_call.env.embedding_ok,
                                      NoList, search_call.top_k)

\* The level of the course code cannot be read: no catalog number part, or a catalog
\* number that does not begin with a digit
UnknownLevel(course_code) ==
    \/ Len(SplitWords(course_code)) < 2
    \/ ~IsDigit(SplitWords(course_code)[2][1])

UnresolvableCandidate ==
    /\ prompt_call.done
    /\ prompt_call.classification.intent = <<"s","i","m","i","l","a","r","i","t","y">>
    /\ TruthyValue(prompt_call.classification.similarity_course_code)
    /\ prompt_call.env.embeddings = Store /\ prompt_call.env.embedding_ok
    /\ prompt_call.env.catalog_codes = Take(RecoCatalog, 2)

\* C27 (as the specification states it): build_chat_prompt returns a prompt and does
\* not raise for a similarity query whose vector results contain a course code that
\* the course details file does not hold; the candidate is skipped and the file loaded
\* at the start is still the object consulted for the AVAILABLE COURSES section, which
\* lists its courses unless the query is a greeting.
C27_UnresolvableCandidateSkipped ==
    UnresolvableCandidate =>
        /\ prompt_call.prompt.raised = "none"
        /\ prompt_call.prompt.closing = "recommend" => prompt_call.prompt.available_listed # <<>>

\* C27 (what the code gives): the loop of the similarity section assigns the result of
\* extract_course_details to course_details, the name of the loaded file, so after an
\* unresolvable last candidate the test `'term' in course_details` raises TypeError
\* unless the query is a greeting, for which the section is not written.
C27_LoadedFileShadowed ==
    UnresolvableCandidate =>
        /\ prompt_call.prompt.raised = "TypeError" \/ prompt_call.prompt.closing = "greeting"
        /\ prompt_call.prompt.available_listed = <<>>

\* Request r has read the chat document and handed its history on, and its own user
\* message is in the document
HistoryHanded(r) ==
    /\ req_pc[r] \in {"generate", "save", "done"}
    /\ failure[r] # "find_one"
    /\ chat_exists
    /\ InSeq(r, userMessages)

\* The user messages that the document holds before the one of request r
PersistedBefore(r) ==
    { userMessages[i] : i \in { i \in DOMAIN userMessages : \E j \in DOMAIN userMessages :
                                    i < j /\ userMessages[j] = r } }

\* C28 (as the specification states it): when two send_message requests for one chat
\* interleave, the history of previous messages that each hands to build_chat_prompt
\* and build_conversation_history holds every user message persisted before its own
\* and never its own user message.
C28_HistoryWithoutOwnMessage ==
    \A r \in Requests :
        HistoryHanded(r) =>
            /\ ~InSeq(r, previous_user_messages[r])
            /\ PersistedBefore(r) \subseteq Range(previous_user_messages[r])

\* C28 (what the code gives): the history is what the document held when it was read
\* without its last user message, whichever request wrote that one: it holds every
\* message persisted before the request's own and is a proper beginning of the
\* document's list.
C28_HistoryDropsLastPersisted ==
    \A r \in Requests :
        HistoryHanded(r) =>
            /\ PersistedBefore(r) \subseteq Range(previous_user_messages[r])
            /\ \E n \in 0..(Len(userMessages) - 1) :
                  previous_user_messages[r] = SubSeq(userMessages, 1, n)

\* Number of the entries of the list that request r wrote
WrittenBy(r, list, RequestOf(_)) == Cardinality({ i \in DOMAIN list : RequestOf(list[i]) = r })

\* C30: after any sequence of send_message calls on a chat the document never holds
\* more model messages than user messages: a call appends nothing, or one user message
\* only, or one user message followed by exactly one model message; a call that was
\* rejected before or at the user-message write made no completion call.
C30_ModelMessagesNeverExceed ==
    /\ Len(modelMessages) <= Len(userMessages)
    /\ \A r \in Requests :
          LET user_count == WrittenBy(r, userMessages, LAMBDA m : m)
              model_count == WrittenBy(r, modelMessages, LAMBDA m : m.req)
          IN  /\ <<user_count, model_count>> \in { <<0, 0>>, <<1, 0>>, <<1, 1>> }
              /\ (req_pc[r] = "done" /\ response[r].status \in {400, 404}) =>
                    (api_calls[r] = 0 /\ user_count = 0 /\ model_count = 0)
              /\ (req_pc[r] = "done" /\ response[r].status = 500) => model_count = 0

\* Both requests were answered 201 and the document holds their two user messages and
\* their two model messages
C30_Witness ==
    /\ \A r \in Requests : req_pc[r] = "done" /\ response[r].status = 201
    /\ Len(userMessages) = 2
    /\ Len(modelMessages) = 2

\* C29 (as the specification states it): the generated Distribution Index lists each
\* course code at most once under each distribution code, also when the tags of a
\* course repeat a code or hold a legacy code together with its modern synonym.
C29_EachCourseOncePerCode ==
    \A d \in DOMAIN distribution_map :
        \A i, j \in DOMAIN distribution_map[d] :
            distribution_map[d][i] = distribution_map[d][j] => i = j

\* C29 (what the code gives): a course is listed under a distribution code once for
\* every tag of it that normalises to that code, because the generator looks for the
\* distribution code, not the course code, in the list it appends to.
C29_OncePerTag ==
    \A d \in DOMAIN distribution_map :
        \A c \in DOMAIN catalog :
            Cardinality({ i \in DOMAIN distribution_map[d] :
                            distribution_map[d][i] = catalog[c].course_code })
              = Cardinality({ t \in DOMAIN dist_codes(catalog[c].distribution) :
                                generator_mapping(dist_codes(catalog[c].distribution)[t]) = d })
=============================================================================
